---------------------------- MODULE Spec2Model ----------------------------
(***************************************************************************)
(* Rofunc: task-parameterised mixture learning (rofunc/lfd/tpgmm/tpgmm.py)  *)
(* and the linear quadratic tracker with control primitives                 *)
(* (rofunc/planning/lqt/lqt_cp.py).                                         *)
(*                                                                          *)
(* Arrays are sequences (1-based here, 0-based in the source): a vector is  *)
(* a sequence of numbers, a matrix a sequence of rows.  Numbers are exact:  *)
(* integers where the code only adds, subtracts and multiplies, and         *)
(* fractions <<numerator, denominator>> where it divides.                   *)
(***************************************************************************)
EXTENDS Integers, Sequences, FiniteSets, TLC

VARIABLES
    \* ---- lqt_cp.py: set_dynamical_system ----
    param,      \* the configuration record (nbData, nbVarPos, nbDeriv, dt, nb_var)
    x0,         \* initial state handed to the synthesis
    u,          \* a control sequence, stacked (nbVarPos * (nbData - 1) numbers)
    lpc,        \* position in set_dynamical_system
    A,          \* A_dyn
    B,          \* B_dyn
    Su,         \* lifted input transfer matrix
    Sx,         \* lifted state transfer matrix
    M,          \* the running block row [A^(i-1)B, ..., AB, B]
    li,         \* loop index i of set_dynamical_system
    \* ---- lqt_cp.py: uni_cp, define_control_primitive, get_u_x ----
    entry,          \* the function the caller entered: "uni_cp" or "get_u_x"
    param0,         \* the caller's configuration record as it was at the call
    data,           \* uni_cp's data: the start pose and the via points
    start_pose,     \* the start pose, padded to the state dimension
    via_point_pose, \* the via points
    refLen,         \* number of timesteps of the reference (muQ, Q)
    muQ,            \* mean of the reference, stacked
    Q,              \* precision of the reference
    R,              \* control cost
    phi,            \* the basis functions, (nbData - 1) x nbFct
    PSI_cp,         \* PSI of lqt_cp.py: np.kron(phi, I)
    w_hat,          \* the basis weights
    u_hat,          \* the returned controls, one row per timestep
    x_hat,          \* the returned states, one row per timestep
    \* ---- tpgmm.py: uni = get_related_matrix, HMM_learning, poe, generate ----
    demos_x,        \* the demonstrations: demos_x[i][j] is a D-vector
    show_demo_idx,  \* the demonstration to reproduce (0-based, as in the source)
    tpc,            \* position in uni
    ti,             \* loop index i of get_dx
    demos_dx,       \* get_dx's result
    demos_xdx,      \* position and velocity, per demonstration and timestep
    demos_A,        \* per demonstration, timestep and frame: the 2 x 2 linear part
    demos_b,        \* per demonstration, timestep and frame: the frame origin
    demos_A_xdx,    \* augmented linear parts
    demos_b_xdx,    \* augmented offsets
    demos_xdx_f,    \* frame-local observations [i][t][frame]
    demos_xdx_augm, \* multi-frame observations [i][t]
    em_it,          \* HMM_learning: the EM iterations performed by model.em
    em_done,        \* HMM_learning: model.em has ended
    model,          \* the fitted HMM (HMM_learning's result)
    mod1,           \* poe: the model of frame 1, in world coordinates
    mod2,           \* poe: the model of frame 2, in world coordinates
    prod,           \* poe's result: the fused model
    logDELTA,       \* viterbi: the best log-score of a path ending in each state [t][i]
    PSI,            \* viterbi: the backpointers [t][i] (1-based states)
    sq,             \* generate: the decoded state path (0-based states)
    lqr,            \* generate: the configured pbd.PoGLQR
    calls,          \* the number of generate calls begun
    first,          \* the state path and reference of the previous generate call
    \* ---- tpgmm.py: bi, run twice on the same left or the same right arm ----
    bpc,            \* position in bi
    demos_left_x,   \* the demonstrations of the left arm
    demos_right_x,  \* the demonstrations of the right arm
    bi_demo_idx,    \* bi's show_demo_idx
    left,           \* the left arm's matrices, model_l, prod_l and gen_l
    right,          \* the right arm's matrices, model_r, prod_r and gen_r
    fits,           \* the models em has returned so far, by the data it was given
    returned,       \* the inputs and results of the bi calls that have returned
    \* ---- base_agent.py: BaseAgent.store_transition ----
    apc,                    \* position of the agent's caller
    tensor_dim,             \* 1: tensors of shape (n,), 2: tensors of shape (n, 1)
    rewards,                \* the call's rewards, one per environment
    dones,                  \* the call's terminated + truncated, one per environment
    cumulative_rewards,     \* self.cumulative_rewards (<< >> is None)
    cumulative_timesteps,   \* self.cumulative_timesteps (<< >> is None)
    track_rewards,          \* self.track_rewards, a deque
    track_timesteps,        \* self.track_timesteps, a deque
    before,                 \* the four fields above as they were when the call began
    transitions,            \* the number of store_transition calls
    \* ---- sim.py: run_traj, run_traj_multi_joints(_with_interference) ----
    spc,            \* position in the function
    sim_fn,         \* the function called
    traj_len,       \* len(traj[i]) per attracted joint
    intf_index,     \* the timing indices of the interference
    intf_mode,      \* the mode of the interference
    index,          \* the loop's index
    commanded,      \* the row index update_robot read in the last update, per joint
    interfered,     \* whether the last update applied the interference
    updates,        \* the number of attractor updates begun
    \* ---- td3_agent.py: TD3Agent.update_net ----
    td3pc,                  \* position in update_net
    policy_update_delay,    \* self._policy_update_delay
    gradient_steps,         \* self._gradient_steps
    gradient_step,          \* the loop variable of update_net
    critic_update_times,    \* self._critic_update_times
    critic_steps,           \* calls of critic_optimizer.step()
    actor_steps,            \* calls of actor_optimizer.step()
    target_updates,         \* soft updates of target_actor, target_critic_1, target_critic_2
    update_calls,           \* update_net calls begun
    \* ---- td3_trainer.py: TD3Trainer.get_action ----
    trpc,               \* position of the trainer's caller
    step,               \* self._step
    random_steps,       \* self.random_steps
    exploration_steps,  \* self._exploration_steps (-1 is None)
    base_actions,       \* super().get_action(states)
    noises,             \* the sample the exploration noise gives for this call
    actions             \* the returned actions

cpVars == <<entry, param0, data, start_pose, via_point_pose, refLen, muQ, Q, R, phi,
            PSI_cp, w_hat, u_hat, x_hat>>

lqtVars == <<param, x0, u, lpc, A, B, Su, Sx, M, li, cpVars>>

frameVars == <<demos_dx, demos_xdx, demos_A, demos_b, demos_A_xdx, demos_b_xdx,
               demos_xdx_f, demos_xdx_augm>>

vitVars == <<logDELTA, PSI, sq>>

genVars == <<lqr, calls, first>>

emVars == <<em_it, em_done>>

gmmVars == <<emVars, model, mod1, mod2, prod, vitVars, genVars>>

tpVars == <<demos_x, show_demo_idx, tpc, ti, frameVars, gmmVars>>

biVars == <<bpc, demos_left_x, demos_right_x, bi_demo_idx, left, right, fits, returned>>

agentVars == <<apc, tensor_dim, rewards, dones, cumulative_rewards, cumulative_timesteps,
               track_rewards, track_timesteps, before, transitions>>

simVars == <<spc, sim_fn, traj_len, intf_index, intf_mode, index, commanded, interfered,
             updates>>

td3Vars == <<td3pc, policy_update_delay, gradient_steps, gradient_step, critic_update_times,
             critic_steps, actor_steps, target_updates, update_calls>>

trainerVars == <<trpc, step, random_steps, exploration_steps, base_actions, noises, actions>>

extVars == <<biVars, agentVars, simVars, td3Vars, trainerVars>>

vars == <<lqtVars, tpVars, extVars>>

\* bi is not called
BiIdle ==
    /\ bpc = "idle" /\ demos_left_x = <<>> /\ demos_right_x = <<>> /\ bi_demo_idx = 0
    /\ left = <<>> /\ right = <<>> /\ fits = <<>> /\ returned = <<>>

\* no agent is constructed
AgentIdle ==
    /\ apc = "idle" /\ tensor_dim = 0 /\ rewards = <<>> /\ dones = <<>>
    /\ cumulative_rewards = <<>> /\ cumulative_timesteps = <<>>
    /\ track_rewards = <<>> /\ track_timesteps = <<>> /\ before = <<>>
    /\ transitions = 0

\* the simulator is not run
SimIdle ==
    /\ spc = "idle" /\ sim_fn = "none" /\ traj_len = <<>> /\ intf_index = {}
    /\ intf_mode = "none" /\ index = 0 /\ commanded = <<>> /\ interfered = FALSE
    /\ updates = 0

\* no TD3 agent is constructed
Td3Idle ==
    /\ td3pc = "idle" /\ policy_update_delay = 0 /\ gradient_steps = 0 /\ gradient_step = 0
    /\ critic_update_times = 0 /\ critic_steps = 0 /\ actor_steps = 0
    /\ target_updates = <<>> /\ update_calls = 0

\* no TD3 trainer is constructed
TrainerIdle ==
    /\ trpc = "idle" /\ step = 0 /\ random_steps = 0 /\ exploration_steps = 0
    /\ base_actions = <<>> /\ noises = <<>> /\ actions = <<>>

ExtIdle == BiIdle /\ AgentIdle /\ SimIdle /\ Td3Idle /\ TrainerIdle

(***************************************************************************)
(* Bounds of the model.                                                     *)
(***************************************************************************)
MaxData == 3        \* largest nbData (number of data points T)
MaxVarPos == 2      \* largest nbVarPos (position dimension)
MaxT == 2           \* longest free demonstration profile
MaxD == 2           \* largest demonstration dimension D
MaxCalls == 2       \* generate calls on one model

(***************************************************************************)
(* numpy on integer arrays.                                                 *)
(***************************************************************************)
\* The same sequence, as an explicit tuple (each element is evaluated once).
Eager(q) == q \o << >>

RECURSIVE SumTo(_, _)
SumTo(f, n) == IF n = 0 THEN 0 ELSE f[n] + SumTo(f, n - 1)

NRows(X) == Len(X)
NCols(X) == IF Len(X) = 0 THEN 0 ELSE Len(X[1])

\* np.identity(n) * s
ScaledIdentity(n, s) ==
    Eager([r \in 1..n |-> Eager([c \in 1..n |-> IF r = c THEN s ELSE 0])])
Identity(n) == ScaledIdentity(n, 1)
\* np.zeros((r, c))
Zeros(nr, nc) == Eager([r \in 1..nr |-> Eager([c \in 1..nc |-> 0])])

\* np.dot(X, Y) for matrices; `inner` is the shared dimension
MatMulN(X, Y, inner, nc) ==
    Eager([r \in 1..NRows(X) |-> Eager([c \in 1..nc |->
        SumTo([k \in 1..inner |-> X[r][k] * Y[k][c]], inner)])])
MatMul(X, Y) == MatMulN(X, Y, NRows(Y), NCols(Y))
\* X @ v for a vector v
MatVec(X, v) ==
    Eager([r \in 1..NRows(X) |-> SumTo([k \in 1..Len(v) |-> X[r][k] * v[k]], Len(v))])
VecAdd(v, w) == Eager([k \in 1..Len(v) |-> v[k] + w[k]])
VecSub(v, w) == Eager([k \in 1..Len(v) |-> v[k] - w[k]])
\* np.hstack((X, Y)) for matrices with the same number of rows
HStack(X, Y) == Eager([r \in 1..NRows(X) |-> X[r] \o Y[r]])
\* rows lo..hi-1 (0-based, as the slice X[lo:hi])
RowSlice(X, lo, hi) == SubSeq(X, lo + 1, hi)

(***************************************************************************)
(* Exact fractions <<n, d>> (d > 0, lowest terms), and matrices of them.    *)
(***************************************************************************)
Abs(a) == IF a < 0 THEN -a ELSE a

RECURSIVE GCD(_, _)
GCD(a, b) == IF b = 0 THEN a ELSE GCD(b, a % b)

RNorm(n, d) ==
    LET g == GCD(Abs(n), Abs(d))
    IN IF d < 0 THEN << (-n) \div g, (-d) \div g >> ELSE << n \div g, d \div g >>

RatOf(i) == << i, 1 >>
\* Common factors are cancelled before multiplying, to keep the numbers small.
RAdd(a, b) ==
    LET g == GCD(a[2], b[2])
    IN RNorm(a[1] * (b[2] \div g) + b[1] * (a[2] \div g), (a[2] \div g) * b[2])
RNeg(a) == << -a[1], a[2] >>
RSub(a, b) == RAdd(a, RNeg(b))
RMul(a, b) ==
    LET g1 == GCD(Abs(a[1]), b[2])
        g2 == GCD(Abs(b[1]), a[2])
    IN << (a[1] \div g1) * (b[1] \div g2), (a[2] \div g2) * (b[2] \div g1) >>
\* a / b, b nonzero
RDiv(a, b) == RMul(a, IF b[1] < 0 THEN << -b[2], -b[1] >> ELSE << b[2], b[1] >>)

RECURSIVE RSumTo(_, _)
RSumTo(f, n) == IF n = 0 THEN RatOf(0) ELSE RAdd(f[n], RSumTo(f, n - 1))

RatVec(v) == Eager([k \in 1..Len(v) |-> RatOf(v[k])])
RatMat(X) == Eager([r \in 1..NRows(X) |-> RatVec(X[r])])
RIdentity(n) == RatMat(Identity(n))

RMatMul(X, Y) ==
    Eager([r \in 1..NRows(X) |-> Eager([c \in 1..NCols(Y) |->
        RSumTo([k \in 1..NRows(Y) |-> RMul(X[r][k], Y[k][c])], NRows(Y))])])
RMatVec(X, v) ==
    Eager([r \in 1..NRows(X) |->
        RSumTo([k \in 1..Len(v) |-> RMul(X[r][k], v[k])], Len(v))])
RMatAdd(X, Y) ==
    Eager([r \in 1..NRows(X) |-> Eager([c \in 1..NCols(X) |-> RAdd(X[r][c], Y[r][c])])])
RVecAdd(v, w) == Eager([k \in 1..Len(v) |-> RAdd(v[k], w[k])])

\* Gauss-Jordan elimination on [X | I], pivots taken on the diagonal: the
\* covariance and precision matrices it is used on are symmetric positive
\* definite, and the frame matrices diagonal, so no pivot is zero.
RECURSIVE GaussJordan(_, _, _)
GaussJordan(aug, k, n) ==
    IF k > n THEN aug
    ELSE LET rowk == Eager([c \in 1..(2 * n) |-> RDiv(aug[k][c], aug[k][k])])
             next == Eager([r \in 1..n |->
                        IF r = k THEN rowk
                        ELSE Eager([c \in 1..(2 * n) |->
                                RSub(aug[r][c], RMul(aug[r][k], rowk[c]))])])
         IN GaussJordan(next, k + 1, n)

\* np.linalg.inv(X), X a square matrix of fractions
RInverse(X) ==
    LET n == NRows(X)
        aug == Eager([r \in 1..n |-> X[r] \o RIdentity(n)[r]])
        done == GaussJordan(aug, 1, n)
    IN Eager([r \in 1..n |-> SubSeq(done[r], n + 1, 2 * n)])

(***************************************************************************)
(* lqt_cp.py: set_dynamical_system                                          *)
(***************************************************************************)
\* Time steps of the model: even integers, so that dt ** 2 / 2 is exact.
DtSet == {2, 4}

Params ==
    { [nbData |-> T, nbVarPos |-> n, nbDeriv |-> d, dt |-> h, nb_var |-> n * d] :
        T \in 1..MaxData, n \in 1..MaxVarPos, d \in {1, 2}, h \in DtSet }

\* Inputs of length n: zero, the unit vectors, and the ramp 1, 2, ..., n.
InputVecs(n) ==
    { [k \in 1..n |-> IF k = j THEN 1 ELSE 0] : j \in 0..n } \cup { [k \in 1..n |-> k] }

\* A = np.identity(nb_var); if nbDeriv == 2: A[:nbVarPos, -nbVarPos:] = I * dt
BuildA(p) ==
    [r \in 1..p.nb_var |-> [c \in 1..p.nb_var |->
        IF p.nbDeriv = 2 /\ r <= p.nbVarPos /\ c > p.nb_var - p.nbVarPos
        THEN (IF c - (p.nb_var - p.nbVarPos) = r THEN p.dt ELSE 0)
        ELSE (IF r = c THEN 1 ELSE 0)]]

\* derivatives = [dt, dt ** 2 / 2][:nbDeriv]
Derivatives(p) == SubSeq(<<p.dt, (p.dt * p.dt) \div 2>>, 1, p.nbDeriv)

\* derivatives[::-1][i], i 0-based
ReversedDerivative(p, i) == Derivatives(p)[p.nbDeriv - i]

\* B = zeros; B[i*nbVarPos:(i+1)*nbVarPos] = I * derivatives[::-1][i]
BuildB(p) ==
    [r \in 1..p.nb_var |-> [c \in 1..p.nbVarPos |->
        LET i == (r - 1) \div p.nbVarPos IN
        IF i < p.nbDeriv /\ (r - 1) % p.nbVarPos = c - 1
        THEN ReversedDerivative(p, i) ELSE 0]]

\* Sx = np.kron(np.ones((nbData, 1)), np.eye(nb_var, nb_var))
InitSx(p) ==
    [r \in 1..(p.nbData * p.nb_var) |-> [c \in 1..p.nb_var |->
        IF (r - 1) % p.nb_var = c - 1 THEN 1 ELSE 0]]

\* Su = np.zeros((nb_var * nbData, nbVarPos * (nbData - 1)))
InitSu(p) == Zeros(p.nb_var * p.nbData, p.nbVarPos * (p.nbData - 1))

\* Sx[i*nb_var:nbData*nb_var, :] = np.dot(Sx[i*nb_var:nbData*nb_var, :], A)
UpdateSx(p, sx, a, i) ==
    LET lower == MatMulN(RowSlice(sx, i * p.nb_var, p.nbData * p.nb_var), a, p.nb_var, p.nb_var)
    IN [r \in 1..NRows(sx) |-> IF r > i * p.nb_var THEN lower[r - i * p.nb_var] ELSE sx[r]]

\* A plausible slip: the block is written one block of rows too high.
UpdateSu_RowAbove(p, su, m, i) ==
    [r \in 1..NRows(su) |-> [c \in 1..NCols(su) |->
        IF r > p.nb_var * (i - 1) /\ r <= p.nb_var * (i - 1) + NRows(m) /\ c <= NCols(m)
        THEN m[r - p.nb_var * (i - 1)][c] ELSE su[r][c]]]

\* A plausible slip: the block is written into the last columns, Su[..., -M.shape[1]:] = M.
UpdateSu_RightAligned(p, su, m, i) ==
    [r \in 1..NRows(su) |-> [c \in 1..NCols(su) |->
        IF r > p.nb_var * i /\ r <= p.nb_var * i + NRows(m) /\ c > NCols(su) - NCols(m)
        THEN m[r - p.nb_var * i][c - (NCols(su) - NCols(m))] ELSE su[r][c]]]

\* Su[nb_var*i : nb_var*i + M.shape[0], 0 : M.shape[1]] = M
UpdateSu(p, su, m, i) ==
    [r \in 1..NRows(su) |-> [c \in 1..NCols(su) |->
        IF r > p.nb_var * i /\ r <= p.nb_var * i + NRows(m) /\ c <= NCols(m)
        THEN m[r - p.nb_var * i][c] ELSE su[r][c]]]

\* A plausible slip: the new block is put in front instead of behind.
StackM_BFirst(a, m, b) == HStack(b, MatMul(a, m))

\* M = np.hstack((np.dot(A, M), B))
StackM(a, m, b) == HStack(MatMul(a, m), b)

\* no mixture model yet
NoGmm == [nb_dim |-> 0, nb_states |-> 0, mu |-> <<>>, sigma |-> <<>>,
          logPrior |-> <<>>, logTrans |-> <<>>]

\* no tracker configured yet, no generate call made yet
NoLqr == [nb_dim |-> 0, horizon |-> 0, mvn_xi |-> [mu |-> <<>>, sigma |-> <<>>],
          mvn_u |-> 0, x0 |-> <<>>]
NoCall == [sq |-> <<>>, lqr |-> NoLqr]

TpIdle ==
    /\ demos_x = <<>> /\ show_demo_idx = 0 /\ tpc = "idle" /\ ti = 0
    /\ demos_dx = <<>> /\ demos_xdx = <<>> /\ demos_A = <<>> /\ demos_b = <<>>
    /\ demos_A_xdx = <<>> /\ demos_b_xdx = <<>> /\ demos_xdx_f = <<>>
    /\ demos_xdx_augm = <<>>
    /\ em_it = 0 /\ em_done = FALSE
    /\ model = NoGmm /\ mod1 = NoGmm /\ mod2 = NoGmm /\ prod = NoGmm
    /\ logDELTA = <<>> /\ PSI = <<>> /\ sq = <<>>
    /\ lqr = NoLqr /\ calls = 0 /\ first = NoCall

\* uni_cp and get_u_x are not called
CpIdle ==
    /\ entry = "none" /\ param0 = <<>> /\ data = <<>> /\ start_pose = <<>>
    /\ via_point_pose = <<>> /\ refLen = 0 /\ muQ = <<>> /\ Q = <<>> /\ R = <<>>
    /\ phi = <<>> /\ PSI_cp = <<>> /\ w_hat = <<>> /\ u_hat = <<>> /\ x_hat = <<>>

LqtIdle ==
    /\ param = [nbData |-> 0, nbVarPos |-> 0, nbDeriv |-> 0, dt |-> 0, nb_var |-> 0]
    /\ x0 = <<>> /\ u = <<>> /\ lpc = "idle"
    /\ A = <<>> /\ B = <<>> /\ Su = <<>> /\ Sx = <<>> /\ M = <<>> /\ li = 0
    /\ CpIdle

InitLQT ==
    /\ param \in Params
    /\ x0 \in InputVecs(param.nb_var)
    /\ u \in InputVecs(param.nbVarPos * (param.nbData - 1))
    /\ lpc = "start"
    /\ A = <<>> /\ B = <<>> /\ Su = <<>> /\ Sx = <<>> /\ M = <<>> /\ li = 0
    /\ CpIdle
    /\ TpIdle
    /\ ExtIdle

\* lines 25-39: A, B, the initial Su and Sx, M = B
set_dynamical_system_begin ==
    /\ lpc = "start"
    /\ A' = BuildA(param)
    /\ B' = BuildB(param)
    /\ Su' = InitSu(param)
    /\ Sx' = InitSx(param)
    /\ M' = BuildB(param)
    /\ li' = 1
    /\ lpc' = "loop"
    /\ UNCHANGED <<param, x0, u, cpVars, tpVars, extVars>>

\* lines 40-43: one iteration of "for i in range(1, nbData)"
set_dynamical_system_iter ==
    /\ lpc = "loop"
    /\ li < param.nbData
    /\ Sx' = UpdateSx(param, Sx, A, li)
    /\ Su' = UpdateSu(param, Su, M, li)
    /\ M' = StackM(A, M, B)
    /\ li' = li + 1
    /\ UNCHANGED <<param, x0, u, lpc, A, B, cpVars, tpVars, extVars>>

\* line 44: return Su, Sx
set_dynamical_system_return ==
    /\ lpc = "loop"
    /\ li >= param.nbData
    /\ lpc' = "done"
    /\ UNCHANGED <<param, x0, u, A, B, Su, Sx, M, li, cpVars, tpVars, extVars>>

NextLQT ==
    \/ set_dynamical_system_begin
    \/ set_dynamical_system_iter
    \/ set_dynamical_system_return

SpecLQT == InitLQT /\ [][NextLQT]_vars

(***************************************************************************)
(* C1                                                                       *)
(***************************************************************************)
RECURSIVE MatPow(_, _)
MatPow(a, t) == IF t = 0 THEN Identity(NRows(a)) ELSE MatMul(a, MatPow(a, t - 1))

\* u_t: the t-th control (0-based) of the stacked control sequence
ControlAt(p, uu, t) == SubSeq(uu, t * p.nbVarPos + 1, (t + 1) * p.nbVarPos)

\* x_t obtained by iterating x_{t+1} = A x_t + B u_t from x_0 = x0
RECURSIVE Rollout(_, _, _, _, _, _)
Rollout(p, a, b, xx, uu, t) ==
    IF t = 0 THEN xx
    ELSE VecAdd(MatVec(a, Rollout(p, a, b, xx, uu, t - 1)), MatVec(b, ControlAt(p, uu, t - 1)))

\* the stacked trajectory Sx x0 + Su u
StackedTrajectory == VecAdd(MatVec(Sx, x0), MatVec(Su, u))

\* block t (0-based) of a stacked vector or of the rows of a stacked matrix
BlockOf(X, t) == SubSeq(X, t * param.nb_var + 1, (t + 1) * param.nb_var)

\* [A^(t-1) B, ..., A B, B, 0, ..., 0], nbData - 1 blocks wide
ExpectedSuRow(t) ==
    [r \in 1..param.nb_var |-> [c \in 1..(param.nbVarPos * (param.nbData - 1)) |->
        LET s == (c - 1) \div param.nbVarPos IN
        IF s < t THEN MatMul(MatPow(A, t - 1 - s), B)[r][c - s * param.nbVarPos] ELSE 0]]

\* C1: when set_dynamical_system has returned, for every t < nbData block t of
\* Sx x0 + Su u is the state x_t of the recursion x_{t+1} = A x_t + B u_t started at
\* x0, block t of Sx is A^t, and block row t of Su is [A^(t-1)B, ..., AB, B, 0, ..., 0].
C1_StackedEqualsRollout ==
    lpc = "done" =>
        \A t \in 0..(param.nbData - 1) :
            /\ BlockOf(StackedTrajectory, t) = Rollout(param, A, B, x0, u, t)
            /\ BlockOf(Sx, t) = MatPow(A, t)
            /\ BlockOf(Su, t) = ExpectedSuRow(t)

C1_Witness ==
    /\ lpc = "done"
    /\ param.nbData >= 3
    /\ param.nbDeriv = 2
    /\ \E k \in 1..Len(u) : u[k] # 0
    /\ \E k \in 1..Len(x0) : x0[k] # 0
    /\ BlockOf(StackedTrajectory, 2) # x0

(***************************************************************************)
(* tpgmm.py: get_dx                                                         *)
(***************************************************************************)
\* dx = dx / 0.01
InvDt == 100

\* Python indexing seq[i]: 0-based, a negative i counts from the end.
InRange(seq, i) == -Len(seq) <= i /\ i < Len(seq)
PyGet(seq, i) == IF i < 0 THEN seq[Len(seq) + i + 1] ELSE seq[i + 1]

\* A plausible slip: the first point is tested before the last one.
DxOperands_FirstBeforeLast(n, j) ==
    IF 0 < j /\ j < n - 1 THEN <<j + 1, j - 1>>
    ELSE IF j = 0 THEN <<j + 1, j>>
    ELSE <<j, j - 1>>

\* The two indices get_dx reads at point j of a demonstration of length n:
\* <<j+1, j-1>> inside, <<j, j-1>> at the last point, <<j+1, j>> otherwise.
DxOperands(n, j) ==
    IF 0 < j /\ j < n - 1 THEN <<j + 1, j - 1>>
    ELSE IF j = n - 1 THEN <<j, j - 1>>
    ELSE <<j + 1, j>>

\* Whether an index read at point j is out of range (an IndexError).
DxRaisesAt(x, j) ==
    LET idx == DxOperands(Len(x), j)
    IN ~InRange(x, idx[1]) \/ ~InRange(x, idx[2])

\* The derivative at point j (0-based): the difference, halved inside, then
\* divided by 0.01.  InvDt is even, so the halved value times InvDt is exact.
DxAt(x, j) ==
    LET idx == DxOperands(Len(x), j)
        d == VecSub(PyGet(x, idx[1]), PyGet(x, idx[2]))
    IN IF 0 < j /\ j < Len(x) - 1
       THEN [k \in 1..Len(d) |-> (d[k] * InvDt) \div 2]
       ELSE [k \in 1..Len(d) |-> d[k] * InvDt]

\* the inner loop "for j in range(len(demos_x[i]))"
DemoDx(x) == [j \in 1..Len(x) |-> DxAt(x, j - 1)]
DemoDxRaises(x) == \E j \in 0..(Len(x) - 1) : DxRaisesAt(x, j)

(***************************************************************************)
(* tpgmm.py: get_A_b                                                        *)
(***************************************************************************)
\* [[1., 0.], [-0., -1.]]
FrameA == << <<1, 0>>, <<0, -1>> >>

\* np.kron(X, Y) for matrices
Kron(X, Y) ==
    Eager([r \in 1..(NRows(X) * NRows(Y)) |-> Eager([c \in 1..(NCols(X) * NCols(Y)) |->
        X[((r - 1) \div NRows(Y)) + 1][((c - 1) \div NCols(Y)) + 1]
            * Y[((r - 1) % NRows(Y)) + 1][((c - 1) % NCols(Y)) + 1]])])

\* A plausible slip: the start-frame origin follows the trajectory.
FrameOrigins_Moving(x, t) == << x[t], PyGet(x, -1) >>

\* A plausible slip: the end point is taken for the start frame and the start
\* point for the end frame.
FrameOrigins_EndFirst(x, t) == << PyGet(x, -1), PyGet(x, 0) >>

\* np.vstack([demos_x[i][0], demos_x[i][-1]]), tiled over the timesteps t = 1..T
FrameOrigins(x, t) == << PyGet(x, 0), PyGet(x, -1) >>

\* demos_b[i] and demos_A[i]
TileB(x) == [t \in 1..Len(x) |-> FrameOrigins(x, t)]
TileA(x) == [t \in 1..Len(x) |-> << FrameA, FrameA >>]

\* np.kron(np.eye(len(demos_x[0][0])), d): np.kron pads the identity's shape with
\* leading ones, so the product is taken frame by frame
KronEye(n, d) == [t \in 1..Len(d) |-> [a \in 1..Len(d[t]) |-> Kron(Identity(n), d[t][a])]]

\* np.concatenate([d, np.zeros(d.shape)], axis=-1)
PadZeros(d) ==
    [t \in 1..Len(d) |-> [a \in 1..Len(d[t]) |->
        d[t][a] \o [k \in 1..Len(d[t][a]) |-> 0]]]

(***************************************************************************)
(* tpgmm.py: get_related_matrix                                             *)
(***************************************************************************)
Min(a, b) == IF a <= b THEN a ELSE b

\* np.hstack([_x, _dx]) for one demonstration
HStackXdx(x, dx) == [t \in 1..Len(x) |-> x[t] \o dx[t]]

\* A plausible slip: the offset is subtracted after the linear part is applied.
ToFrame_OffsetAfter(Amat, x, b) ==
    [i \in 1..NCols(Amat) |->
        SumTo([j \in 1..Len(x) |-> Amat[j][i] * x[j]], Len(x)) - b[i]]

\* einsum('taji,taj->tai') for one timestep t and one frame a:
\* out[i] = sum_j A[j][i] * (x[j] - b[j])
ToFrame(Amat, x, b) ==
    [i \in 1..NCols(Amat) |->
        SumTo([j \in 1..Len(x) |-> Amat[j][i] * (x[j] - b[j])], Len(x))]

\* the einsum over one demonstration: [t][a]
EinsumDemo(xdx, Axdx, bxdx) ==
    [t \in 1..Len(xdx) |-> [a \in 1..Len(Axdx[t]) |->
        ToFrame(Axdx[t][a], xdx[t], bxdx[t][a])]]

\* A plausible slip: the row width misses the factor 2 (the number of frames).
AugmWidth_OneFrame(xdx) == Len(xdx[1][1])

\* len(demos_xdx[0][0]) * 2
AugmWidth(xdx) == Len(xdx[1][1]) * 2

\* d.reshape(-1, w) of an array d[t][a][k] (row-major): entry (r, c) of the
\* result is the entry with flat index r * w + c
FlatAt(d, n) ==
    LET P == Len(d[1])
        L == Len(d[1][1])
    IN d[(n \div (P * L)) + 1][((n % (P * L)) \div L) + 1][(n % L) + 1]

Reshape(d, w) ==
    LET total == Len(d) * Len(d[1]) * Len(d[1][1])
    IN [r \in 1..(total \div w) |-> [c \in 1..w |-> FlatAt(d, (r - 1) * w + (c - 1))]]

(***************************************************************************)
(* tpgmm.py: HMM_learning.  The fit itself (k-bins initialisation and EM)   *)
(* is pbdlib's; its result is one of the models below.                      *)
(***************************************************************************)
\* pbd.HMM(nb_states=4)
NbStates == 4

\* The iteration budget of model.em.
NbMaxSteps == 2

\* A plausible slip: the iterations also end when the log-likelihood no
\* longer improves.
EmStops_OnPlateau(it, plateau) == it >= NbMaxSteps \/ plateau

\* model.em ends after iteration number `it` (counted from 1): the budget is
\* used up, whatever the log-likelihood did
EmStops(it, plateau) == it >= NbMaxSteps

\* Fitted models of the model checker.
NbFits == 3

\* "log 0": the log of a zero probability (pbdlib adds realmin before the log)
LogZero == -100000

\* A fitted HMM over observations of dimension n: means, covariances that are
\* symmetric and strictly diagonally dominant (so positive definite), and integer
\* log-scores for the initial and transition probabilities.  Fits 1 and 3 have
\* uniform priors and transitions, the others are left-to-right; in fit 3 the
\* states 2 and 3 have the same mean.
FittedModel(n, v) ==
    [nb_dim |-> n,
     nb_states |-> NbStates,
     mu |-> Eager([k \in 1..NbStates |-> Eager([c \in 1..n |->
                 (((IF v = 3 /\ k = 3 THEN 2 ELSE k) * c + v) % 5) - 2])]),
     sigma |-> Eager([k \in 1..NbStates |-> Eager([r \in 1..n |-> Eager([c \in 1..n |->
                 IF r = c THEN 3 + ((k + r + v) % 3)
                 ELSE IF (r + 1) \div 2 = (c + 1) \div 2 THEN 1
                 ELSE IF r - c = n \div 2 \/ c - r = n \div 2 THEN 1
                 ELSE 0])])]),
     logPrior |-> Eager([k \in 1..NbStates |->
                    IF v \in {1, 3} THEN 0 ELSE IF k = 1 THEN 0 ELSE LogZero]),
     logTrans |-> Eager([i \in 1..NbStates |-> Eager([j \in 1..NbStates |->
                    IF v \in {1, 3} THEN 0
                    ELSE IF j = i THEN 0 ELSE IF j = i + 1 THEN -1 ELSE LogZero])])]

FittedModels(n) == { FittedModel(n, v) : v \in 1..NbFits }

(***************************************************************************)
(* pbdlib's GMM operations used by poe.                                      *)
(***************************************************************************)
\* the indices (1-based) a Python slice(start, stop) selects among n entries
SliceIndices(start, stop, n) == (start + 1)..Min(stop, n)

\* x[slice(start, stop)] for a sequence x
SliceSeq(x, start, stop) == SubSeq(x, start + 1, Min(stop, Len(x)))

\* model.marginal_model(slice(start, stop)): every mean and covariance is
\* restricted to the slice; no renormalisation
MarginalModel(g, start, stop) ==
    [nb_dim |-> stop - start,
     nb_states |-> g.nb_states,
     mu |-> Eager([k \in 1..g.nb_states |-> SliceSeq(g.mu[k], start, stop)]),
     sigma |-> Eager([k \in 1..g.nb_states |->
                 Eager([r \in 1..Len(SliceSeq(g.sigma[k], start, stop)) |->
                    SliceSeq(SliceSeq(g.sigma[k], start, stop)[r], start, stop)])]),
     logPrior |-> g.logPrior,
     logTrans |-> g.logTrans]

Transpose(X) == Eager([c \in 1..NCols(X) |-> Eager([r \in 1..NRows(X) |-> X[r][c]])])

\* A plausible slip: marginal_model restricts the model it is called on.
MarginalReceiver_InPlace(g, start, stop) == MarginalModel(g, start, stop)

\* The model marginal_model was called on, after the call: the marginal is a new
\* mixture, the receiver is as before.
MarginalReceiver(g, start, stop) == g

\* gmm.lintrans(A, b): mean' = A mean + b, covariance' = A covariance A^T
LinTrans(g, Amat, b) ==
    [g EXCEPT
        !.mu = Eager([k \in 1..g.nb_states |-> VecAdd(MatVec(Amat, g.mu[k]), b)]),
        !.sigma = Eager([k \in 1..g.nb_states |->
                     MatMul(MatMul(Amat, g.sigma[k]), Transpose(Amat))])]

\* The product of two Gaussians, in fractions: the precisions add, and the mean
\* is the fused covariance applied to the sum of the precision-weighted means.
GaussianProduct(mu1, sigma1, mu2, sigma2) ==
    LET l1 == RInverse(RatMat(sigma1))
        l2 == RInverse(RatMat(sigma2))
        fused == RInverse(RMatAdd(l1, l2))
    IN [mu |-> RMatVec(fused, RVecAdd(RMatVec(l1, RatVec(mu1)), RMatVec(l2, RatVec(mu2)))),
        sigma |-> fused]

\* gmm1 * gmm2: component k of one with component k of the other
GmmProduct(g1, g2) ==
    LET comp == Eager([k \in 1..g1.nb_states |->
                    GaussianProduct(g1.mu[k], g1.sigma[k], g2.mu[k], g2.sigma[k])])
    IN [nb_dim |-> g1.nb_dim,
        nb_states |-> g1.nb_states,
        mu |-> Eager([k \in 1..g1.nb_states |-> comp[k].mu]),
        sigma |-> Eager([k \in 1..g1.nb_states |-> comp[k].sigma]),
        logPrior |-> g1.logPrior,
        logTrans |-> g1.logTrans]

(***************************************************************************)
(* tpgmm.py: poe                                                            *)
(***************************************************************************)
\* A plausible slip: the number of frames is taken for the block width.
PoeBlock_Frames(b) == Len(b)

\* len(b[0]): the width of one frame's block
PoeBlock(b) == Len(b[1])

\* slice(0, len(b[0])) and slice(len(b[0]), len(b[0]) * 2)
PoeSlice1(b) == << 0, PoeBlock(b) >>
PoeSlice2(b) == << PoeBlock(b), PoeBlock(b) * 2 >>

\* demos_A_xdx[demo_idx][t], demos_b_xdx[demo_idx][t]; poe reads t = 0
PoeTransform(Axdx, bxdx, demo_idx, t) ==
    [A |-> Axdx[demo_idx + 1][t + 1], b |-> bxdx[demo_idx + 1][t + 1]]

\* mod1 and mod2 of poe, from the transform tr
PoeMod1(mdl, tr) ==
    LinTrans(MarginalModel(mdl, PoeSlice1(tr.b)[1], PoeSlice1(tr.b)[2]), tr.A[1], tr.b[1])
PoeMod2(mdl, tr) ==
    LinTrans(MarginalModel(mdl, PoeSlice2(tr.b)[1], PoeSlice2(tr.b)[2]), tr.A[2], tr.b[2])

\* A plausible slip: the first frame is fused with itself.
PoeProduct_SameFrame(m1, m2) == GmmProduct(m1, m1)

\* prod = mod1 * mod2
PoeProduct(m1, m2) == GmmProduct(m1, m2)

(***************************************************************************)
(* pbdlib's HMM.viterbi, used by generate.                                  *)
(***************************************************************************)
\* The emission log-score of observation x in state k: minus the squared
\* distance to the state's mean.
EmissionScore(mdl, k, x) ==
    -SumTo([c \in 1..Len(x) |-> (x[c] - mdl.mu[k][c]) * (x[c] - mdl.mu[k][c])], Len(x))

\* logB[k][t]
EmissionScores(mdl, obs) ==
    [k \in 1..mdl.nb_states |-> [t \in 1..Len(obs) |-> EmissionScore(mdl, k, obs[t])]]

RECURSIVE MaxTo(_, _)
MaxTo(f, n) == IF n = 1 THEN f[1] ELSE LET m == MaxTo(f, n - 1) IN IF f[n] > m THEN f[n] ELSE m

\* Of the indices of the maximum, the last.
ArgMax_Last(f, n) ==
    CHOOSE i \in 1..n : f[i] = MaxTo(f, n) /\ \A j \in (i + 1)..n : f[j] # MaxTo(f, n)

\* np.argmax over f[1..n]: the first index of the maximum
RECURSIVE ArgMaxFrom(_, _, _, _)
ArgMaxFrom(f, n, i, best) ==
    IF i > n THEN best
    ELSE ArgMaxFrom(f, n, i + 1, IF f[i] > f[best] THEN i ELSE best)

\* A plausible slip: ties are broken by a source of hidden state, here the
\* parity of the number of calls made so far.
ArgMax_ByCall(f, n) ==
    IF calls % 2 = 0 THEN ArgMaxFrom(f, n, 2, 1)
    ELSE CHOOSE i \in 1..n : f[i] = MaxTo(f, n) /\ \A j \in (i + 1)..n : f[j] # MaxTo(f, n)
ArgMax(f, n) == ArgMaxFrom(f, n, 2, 1)

\* logDELTA[:, 0] = log(init_priors) + logB[:, 0]
ViterbiFirst(logPrior, logB, K) == [k \in 1..K |-> logPrior[k] + logB[k][1]]

\* candidates of state i: logDELTA[:, t - 1] + log(Trans[:, i])
ViterbiCandidates(delta, logTrans, i, K) == [j \in 1..K |-> delta[j] + logTrans[j][i]]

\* PSI[:, t] and logDELTA[:, t] from logDELTA[:, t - 1]
ViterbiPsi(delta, logTrans, K) ==
    [i \in 1..K |-> ArgMax(ViterbiCandidates(delta, logTrans, i, K), K)]
ViterbiDelta(delta, logTrans, logB, t, K) ==
    [i \in 1..K |-> MaxTo(ViterbiCandidates(delta, logTrans, i, K), K) + logB[i][t]]

\* the forward pass: the columns logDELTA[:, 0..t-1] and PSI[:, 0..t-1]
RECURSIVE ViterbiForward(_, _, _, _, _)
ViterbiForward(logPrior, logTrans, logB, t, K) ==
    IF t = 1
    THEN [delta |-> << Eager(ViterbiFirst(logPrior, logB, K)) >>,
          psi |-> << [i \in 1..K |-> 1] >>]
    ELSE LET prev == ViterbiForward(logPrior, logTrans, logB, t - 1, K)
         IN [delta |-> Append(prev.delta,
                          Eager(ViterbiDelta(prev.delta[t - 1], logTrans, logB, t, K))),
             psi |-> Append(prev.psi, Eager(ViterbiPsi(prev.delta[t - 1], logTrans, K)))]

\* backtracking: q[-1] = argmax(logDELTA[:, -1]); q[t] = PSI[q[t + 1], t + 1]
RECURSIVE ViterbiBack(_, _, _, _)
ViterbiBack(psi, last, t, T) ==
    IF t = T THEN << last >>
    ELSE LET rest == ViterbiBack(psi, last, t + 1, T)
         IN << psi[t + 1][rest[1]] >> \o rest

\* the state path read off the tables, states numbered from 0
ViterbiPath(delta, psi, T, K) ==
    LET path == ViterbiBack(psi, ArgMax(delta[T], K), 1, T)
    IN [t \in 1..T |-> path[t] - 1]

\* model.viterbi(obs): the tables of the forward pass
ViterbiTables(mdl, obs) ==
    ViterbiForward(mdl.logPrior, mdl.logTrans, EmissionScores(mdl, obs), Len(obs),
                   mdl.nb_states)

\* The model viterbi was called on, after the call: decoding only reads it.
ViterbiReceiver(mdl, obs) == mdl

(***************************************************************************)
(* tpgmm.py: generate                                                       *)
(***************************************************************************)
\* A plausible slip: the first demonstration is decoded, whatever demo_idx is.
DecodedObservation_First(augm, demo_idx) == augm[1]

\* demos_xdx_augm[demo_idx]
DecodedObservation(augm, demo_idx) == augm[demo_idx + 1]

\* pbdlib's GMM.concatenate_gaussian(q): the means of the components q[t] one
\* after the other, their covariances along the diagonal
ConcatenateGaussian(g, q) ==
    LET n == g.nb_dim
        N == n * Len(q)
    IN [mu |-> Eager([r \in 1..N |-> g.mu[q[((r - 1) \div n) + 1] + 1][((r - 1) % n) + 1]]),
        sigma |-> Eager([r \in 1..N |-> Eager([c \in 1..N |->
                    IF (r - 1) \div n = (c - 1) \div n
                    THEN g.sigma[q[((r - 1) \div n) + 1] + 1][((r - 1) % n) + 1][((c - 1) % n) + 1]
                    ELSE RatOf(0)])])]

\* pbd.PoGLQR(nb_dim=7, ...)
LqrNbDim == 7

\* lqr.mvn_u = -4
LqrMvnU == -4

\* A plausible slip: the reference is read off the unfused model.
GenerateReference_Unfused(mdl, fused, path) ==
    ConcatenateGaussian(
        [nb_dim |-> fused.nb_dim,
         mu |-> [k \in 1..mdl.nb_states |-> RatVec(SubSeq(mdl.mu[k], 1, fused.nb_dim))],
         sigma |-> [k \in 1..mdl.nb_states |->
                     RatMat([r \in 1..fused.nb_dim |->
                                SubSeq(mdl.sigma[k][r], 1, fused.nb_dim)])]],
        path)

\* prod.concatenate_gaussian(sq)
GenerateReference(mdl, fused, path) == ConcatenateGaussian(fused, path)

\* A plausible slip: the horizon counts the controls, one fewer than the states.
GenerateLqr_ControlHorizon(mdl, fused, xdx, path, demo_idx) ==
    [nb_dim |-> LqrNbDim,
     horizon |-> Len(xdx[demo_idx + 1]) - 1,
     mvn_xi |-> GenerateReference(mdl, fused, path),
     mvn_u |-> LqrMvnU,
     x0 |-> xdx[demo_idx + 1][1]]

\* lines 92-95: the tracker generate configures
GenerateLqr(mdl, fused, xdx, path, demo_idx) ==
    [nb_dim |-> LqrNbDim,
     horizon |-> Len(xdx[demo_idx + 1]),
     mvn_xi |-> GenerateReference(mdl, fused, path),
     mvn_u |-> LqrMvnU,
     x0 |-> xdx[demo_idx + 1][1]]

(***************************************************************************)
(* The demonstrations of the model.                                         *)
(***************************************************************************)
\* Scalar values a profile takes.
Vals == {0, 1}

RECURSIVE SeqsOfLen(_, _)
SeqsOfLen(S, n) ==
    IF n = 0 THEN { <<>> }
    ELSE { Append(q, v) : q \in SeqsOfLen(S, n - 1), v \in S }

Profiles == UNION { SeqsOfLen(Vals, n) : n \in 1..MaxT }

\* Coordinate d of the point with profile value v: the coordinates differ.
Coord(v, d) == v * d + (d - 1)

Demo(s, D) == [j \in 1..Len(s) |-> [d \in 1..D |-> Coord(s[j], d)]]

\* A second demonstration, two points longer and starting elsewhere.
Companion(s) == << s[Len(s)] + 3, s[1] + 1 >> \o s

DemoLists ==
    UNION { { << Demo(s, D) >>,
              << Demo(s, D), Demo(Companion(s), D) >>,
              << Demo(Companion(s), D), Demo(s, D) >> } :
            s \in Profiles, D \in 1..MaxD }

(***************************************************************************)
(* uni: the pipeline                                                        *)
(***************************************************************************)
\* A plausible slip: generate is called right after HMM_learning, poe is left
\* out.
UniStageAfter_WithoutFusion(stage) ==
    CASE stage = "frames" -> "HMM_learning"
      [] stage = "HMM_learning" -> "generate"
      [] stage = "poe" -> "generate"

\* uni, lines 109-112: the call that follows a call
UniStageAfter(stage) ==
    CASE stage = "frames" -> "HMM_learning"
      [] stage = "HMM_learning" -> "poe"
      [] stage = "poe" -> "generate"

Init ==
    /\ demos_x \in DemoLists
    /\ show_demo_idx \in 0..(Len(demos_x) - 1)
    /\ tpc = "get_dx" /\ ti = 0
    /\ demos_dx = <<>> /\ demos_xdx = <<>> /\ demos_A = <<>> /\ demos_b = <<>>
    /\ demos_A_xdx = <<>> /\ demos_b_xdx = <<>> /\ demos_xdx_f = <<>>
    /\ demos_xdx_augm = <<>>
    /\ em_it = 0 /\ em_done = FALSE
    /\ model = NoGmm /\ mod1 = NoGmm /\ mod2 = NoGmm /\ prod = NoGmm
    /\ logDELTA = <<>> /\ PSI = <<>> /\ sq = <<>>
    /\ lqr = NoLqr /\ calls = 0 /\ first = NoCall
    /\ LqtIdle
    /\ ExtIdle

\* get_dx, lines 10-21: one iteration of "for i in range(len(demos_x))"
get_dx_iter ==
    /\ tpc = "get_dx"
    /\ ti < Len(demos_x)
    /\ IF DemoDxRaises(demos_x[ti + 1])
       THEN /\ tpc' = "IndexError"
            /\ UNCHANGED <<ti, demos_dx>>
       ELSE /\ demos_dx' = Append(demos_dx, DemoDx(demos_x[ti + 1]))
            /\ ti' = ti + 1
            /\ UNCHANGED tpc
    /\ UNCHANGED <<demos_x, show_demo_idx, demos_xdx, demos_A, demos_b, demos_A_xdx,
                   demos_b_xdx, demos_xdx_f, demos_xdx_augm, gmmVars, lqtVars, extVars>>

\* get_dx, line 22 and get_related_matrix, lines 39-40
get_related_matrix_xdx ==
    /\ tpc = "get_dx"
    /\ ti >= Len(demos_x)
    /\ demos_xdx' = [i \in 1..Min(Len(demos_x), Len(demos_dx)) |->
                        HStackXdx(demos_x[i], demos_dx[i])]
    /\ tpc' = "get_A_b"
    /\ UNCHANGED <<demos_x, show_demo_idx, ti, demos_dx, demos_A, demos_b, demos_A_xdx,
                   demos_b_xdx, demos_xdx_f, demos_xdx_augm, gmmVars, lqtVars, extVars>>

\* get_A_b, lines 26-34
get_A_b ==
    /\ tpc = "get_A_b"
    /\ demos_b' = [i \in 1..Len(demos_x) |-> TileB(demos_x[i])]
    /\ demos_A' = [i \in 1..Len(demos_x) |-> TileA(demos_x[i])]
    /\ demos_A_xdx' = [i \in 1..Len(demos_x) |->
                          KronEye(Len(demos_x[1][1]), TileA(demos_x[i]))]
    /\ demos_b_xdx' = [i \in 1..Len(demos_x) |-> PadZeros(TileB(demos_x[i]))]
    /\ tpc' = "frames"
    /\ UNCHANGED <<demos_x, show_demo_idx, ti, demos_dx, demos_xdx, demos_xdx_f,
                   demos_xdx_augm, gmmVars, lqtVars, extVars>>

\* get_related_matrix, lines 42-46
get_related_matrix_frames ==
    /\ tpc = "frames"
    /\ LET f == [i \in 1..Min(Len(demos_xdx), Min(Len(demos_A_xdx), Len(demos_b_xdx))) |->
                    EinsumDemo(demos_xdx[i], demos_A_xdx[i], demos_b_xdx[i])]
       IN /\ demos_xdx_f' = f
          /\ demos_xdx_augm' = [i \in 1..Len(f) |-> Reshape(f[i], AugmWidth(demos_xdx))]
    /\ tpc' = UniStageAfter("frames")
    /\ UNCHANGED <<demos_x, show_demo_idx, ti, demos_dx, demos_xdx, demos_A, demos_b,
                   demos_A_xdx, demos_b_xdx, gmmVars, lqtVars, extVars>>

\* HMM_learning, line 53: one iteration of model.em.  Its log-likelihood gain
\* may or may not fall under the threshold of a plateau.
em_iter ==
    /\ tpc = "HMM_learning"
    /\ ~em_done
    /\ \E plateau \in BOOLEAN :
        /\ em_it' = em_it + 1
        /\ em_done' = EmStops(em_it + 1, plateau)
    /\ UNCHANGED <<demos_x, show_demo_idx, tpc, ti, frameVars, model, mod1, mod2, prod,
                   vitVars, genVars, lqtVars, extVars>>

\* HMM_learning, lines 50-63 (plot = False): model.em has ended, the model is
\* returned
HMM_learning ==
    /\ tpc = "HMM_learning"
    /\ em_done
    /\ model' \in FittedModels(Len(demos_xdx_augm[1][1]))
    /\ tpc' = UniStageAfter("HMM_learning")
    /\ UNCHANGED <<demos_x, show_demo_idx, ti, frameVars, emVars, mod1, mod2, prod, vitVars,
                   genVars, lqtVars, extVars>>

\* poe, lines 69-84 (plot = False)
poe ==
    /\ tpc = "poe"
    /\ LET tr == PoeTransform(demos_A_xdx, demos_b_xdx, show_demo_idx, 0)
           m1 == PoeMod1(model, tr)
           m2 == PoeMod2(model, tr)
       IN /\ mod1' = m1
          /\ mod2' = m2
          /\ prod' = PoeProduct(m1, m2)
          /\ model' = MarginalReceiver(
                         MarginalReceiver(model, PoeSlice1(tr.b)[1], PoeSlice1(tr.b)[2]),
                         PoeSlice2(tr.b)[1], PoeSlice2(tr.b)[2])
    /\ tpc' = UniStageAfter("poe")
    /\ UNCHANGED <<demos_x, show_demo_idx, ti, frameVars, emVars, vitVars, genVars, lqtVars, extVars>>

\* generate, line 89
generate_viterbi ==
    /\ tpc = "generate"
    /\ LET obs == DecodedObservation(demos_xdx_augm, show_demo_idx)
           fw == ViterbiTables(model, obs)
       IN /\ logDELTA' = fw.delta
          /\ PSI' = fw.psi
          /\ sq' = ViterbiPath(fw.delta, fw.psi, Len(obs), model.nb_states)
          /\ model' = ViterbiReceiver(model, obs)
    /\ calls' = calls + 1
    /\ tpc' = "lqr"
    /\ UNCHANGED <<demos_x, show_demo_idx, ti, frameVars, emVars, mod1, mod2, prod, lqr,
                   first, lqtVars, extVars>>

\* generate, lines 92-95: the tracker and its reference
generate_lqr ==
    /\ tpc = "lqr"
    /\ lqr' = GenerateLqr(model, prod, demos_xdx, sq, show_demo_idx)
    /\ tpc' = "seq_xi"
    /\ UNCHANGED <<demos_x, show_demo_idx, ti, frameVars, emVars, model, mod1, mod2, prod,
                   vitVars, calls, first, lqtVars, extVars>>

\* generate, lines 89-95, called once more with the same arguments
generate_again ==
    /\ tpc = "seq_xi"
    /\ calls < MaxCalls
    /\ first' = [sq |-> sq, lqr |-> lqr]
    /\ LET obs == DecodedObservation(demos_xdx_augm, show_demo_idx)
           fw == ViterbiTables(model, obs)
           path == ViterbiPath(fw.delta, fw.psi, Len(obs), model.nb_states)
       IN /\ logDELTA' = fw.delta
          /\ PSI' = fw.psi
          /\ sq' = path
          /\ lqr' = GenerateLqr(model, prod, demos_xdx, path, show_demo_idx)
          /\ model' = ViterbiReceiver(model, obs)
    /\ calls' = calls + 1
    /\ UNCHANGED <<demos_x, show_demo_idx, tpc, ti, frameVars, emVars, mod1, mod2, prod,
                   lqtVars, extVars>>

Next ==
    \/ get_dx_iter
    \/ get_related_matrix_xdx
    \/ get_A_b
    \/ get_related_matrix_frames
    \/ em_iter
    \/ HMM_learning
    \/ poe
    \/ generate_viterbi
    \/ generate_lqr
    \/ generate_again

Spec == Init /\ [][Next]_vars


(***************************************************************************)
(* C2 - C4                                                                  *)
(***************************************************************************)
\* get_dx has returned
DxDone == tpc \notin {"idle", "get_dx", "IndexError"}
\* get_A_b has returned
AbDone == DxDone /\ tpc # "get_A_b"
\* get_related_matrix has returned
FramesDone == AbDone /\ tpc # "frames"

\* C2: get_dx never reads out of range, and once it has returned every
\* demonstration has a derivative sequence of its own length, holding
\* (x[j+1] - x[j-1]) / 2 / 0.01 inside, (x[1] - x[0]) / 0.01 at the first point,
\* (x[T-1] - x[T-2]) / 0.01 at the last, and zero for a demonstration of length 1.
C2_GetDxDifferences ==
    /\ tpc # "IndexError"
    /\ DxDone => Len(demos_dx) = Len(demos_x)
    /\ \A i \in 1..Len(demos_dx) :
        LET x == demos_x[i]
            dx == demos_dx[i]
            T == Len(x)
        IN /\ Len(dx) = T
           /\ \A j \in 0..(T - 1) : \A k \in 1..Len(x[1]) :
                IF T = 1 THEN dx[1][k] = 0
                ELSE IF j = 0 THEN dx[1][k] = (x[2][k] - x[1][k]) * 100
                ELSE IF j = T - 1 THEN dx[T][k] = (x[T][k] - x[T - 1][k]) * 100
                ELSE 2 * dx[j + 1][k] = (x[j + 2][k] - x[j][k]) * 100

C2_Witness ==
    /\ DxDone
    /\ \E i \in 1..Len(demos_x) : Len(demos_x[i]) = 1
    /\ \E i \in 1..Len(demos_x) :
        /\ Len(demos_x[i]) >= 3
        /\ (demos_x[i][3][1] - demos_x[i][1][1]) % 2 = 1
        /\ demos_dx[i][2][1] = 50 * (demos_x[i][3][1] - demos_x[i][1][1])

\* C3: once get_related_matrix has returned, for every demonstration i, timestep
\* t and frame p the frame-local observation f satisfies A_p f = xdx_t - b_p with
\* A_p invertible, that is f = inverse(A_p) (xdx_t - b_p); xdx_t is position then
\* velocity, b_p the frame origin (first point for frame 1, last point for frame
\* 2) followed by zeros, A_p the augmented linear part.
C3_FrameLocalObservation ==
    FramesDone =>
        \A i \in 1..Len(demos_x) : \A t \in 1..Len(demos_x[i]) : \A p \in 1..2 :
            LET x == demos_x[i]
                D == Len(x[1])
                Ap == demos_A_xdx[i][t][p]
                bp == demos_b_xdx[i][t][p]
                f == demos_xdx_f[i][t][p]
            IN /\ demos_xdx[i][t] = x[t] \o demos_dx[i][t]
               /\ bp = (IF p = 1 THEN x[1] ELSE x[Len(x)]) \o [k \in 1..D |-> 0]
               /\ MatMul(Ap, Transpose(Ap)) = Identity(2 * D)
               /\ MatVec(Ap, f) = VecSub(demos_xdx[i][t], bp)

C3_Witness ==
    /\ FramesDone
    /\ Len(demos_x) = 2
    /\ Len(demos_x[1][1]) = 2
    /\ demos_xdx_f[2][2][1][2] # demos_xdx[2][2][2]
    /\ demos_xdx_f[2][2][1] # demos_xdx_f[2][2][2]
    /\ demos_b_xdx[2][2][1][2] # 0

\* C4: once get_A_b has returned, the augmented linear part of every frame is
\* the block-diagonal matrix of the frame's D x D linear part A_t, once on the
\* position block and once on the velocity block.
C4_BlockDiagonalAugmentation ==
    AbDone =>
        \A i \in 1..Len(demos_x) : \A t \in 1..Len(demos_x[i]) : \A p \in 1..2 :
            LET D == Len(demos_x[i][1])
                At == demos_A[i][t][p]
                X == demos_A_xdx[i][t][p]
            IN /\ NRows(At) = D /\ NCols(At) = D
               /\ NRows(X) = 2 * D /\ NCols(X) = 2 * D
               /\ \A r \in 1..D : \A c \in 1..D :
                    /\ X[r][c] = At[r][c]
                    /\ X[D + r][D + c] = At[r][c]
                    /\ X[r][D + c] = 0
                    /\ X[D + r][c] = 0

(***************************************************************************)
(* C5 - C7                                                                  *)
(***************************************************************************)
\* poe has returned
PoeDone == tpc \in {"generate", "lqr"}

\* A mixture whose means have n numbers and whose covariances are n x n.
HasDim(g, n) ==
    /\ g.nb_dim = n
    /\ \A k \in 1..g.nb_states :
        /\ Len(g.mu[k]) = n
        /\ Len(g.sigma[k]) = n
        /\ \A r \in 1..n : Len(g.sigma[k][r]) = n

\* C5: once get_related_matrix has returned, a demonstration of length T and
\* dimension D has T multi-frame observations of 2 * D * 2 numbers each (two
\* frames); once poe has returned, the two per-frame models and their product
\* have dimension 2 * D.
C5_ObservationAndFusedDimensions ==
    /\ FramesDone =>
        /\ Len(demos_xdx_augm) = Len(demos_x)
        /\ \A i \in 1..Len(demos_x) :
            /\ Len(demos_xdx_augm[i]) = Len(demos_x[i])
            /\ \A t \in 1..Len(demos_xdx_augm[i]) :
                Len(demos_xdx_augm[i][t]) = 2 * Len(demos_x[i][1]) * 2
    /\ PoeDone =>
        LET D == Len(demos_x[show_demo_idx + 1][1])
        IN /\ HasDim(mod1, 2 * D) /\ HasDim(mod2, 2 * D) /\ HasDim(prod, 2 * D)
           /\ mod1.nb_states = NbStates /\ mod2.nb_states = NbStates
           /\ prod.nb_states = NbStates

C5_Witness ==
    /\ PoeDone
    /\ Len(demos_x) = 2
    /\ Len(demos_x[1][1]) = 2
    /\ Len(demos_x[1]) = 2
    /\ Len(demos_xdx_augm[2]) = 4
    /\ Len(demos_xdx_augm[2][4]) = 8
    /\ Len(prod.sigma[NbStates]) = 4

\* the transform poe would read at timestep t
PoeTransformAt(t) == PoeTransform(demos_A_xdx, demos_b_xdx, show_demo_idx, t)

\* poe's result had it read the transform of timestep t
PoeAt(t) == PoeProduct(PoeMod1(model, PoeTransformAt(t)), PoeMod2(model, PoeTransformAt(t)))

\* C6: once get_A_b has returned, the transform (A_t, b_t) of every frame of
\* every demonstration is at each timestep t the transform of timestep 0; and
\* once poe has returned, the two per-frame models it multiplies, and so their
\* product, are what they would be had it read the transform of any other
\* timestep of the demonstration.
C6_TransformsConstantOverTime ==
    /\ AbDone =>
        \A i \in 1..Len(demos_x) : \A t \in 1..Len(demos_x[i]) :
            /\ demos_A[i][t] = demos_A[i][1]
            /\ demos_b[i][t] = demos_b[i][1]
            /\ demos_A_xdx[i][t] = demos_A_xdx[i][1]
            /\ demos_b_xdx[i][t] = demos_b_xdx[i][1]
    /\ tpc = "generate" =>
        /\ \A t \in 0..(Len(demos_x[show_demo_idx + 1]) - 1) :
            /\ PoeMod1(model, PoeTransformAt(t)) = mod1
            /\ PoeMod2(model, PoeTransformAt(t)) = mod2
        /\ PoeProduct(mod1, mod2) = prod

C6_Witness ==
    /\ tpc = "generate"
    /\ Len(demos_x[show_demo_idx + 1]) >= 3
    /\ demos_x[show_demo_idx + 1][1] # demos_x[show_demo_idx + 1][2]
    /\ demos_x[show_demo_idx + 1][2] # demos_x[show_demo_idx + 1][3]
    /\ demos_b_xdx[show_demo_idx + 1][3][1] = demos_b_xdx[show_demo_idx + 1][1][1]
    /\ demos_b_xdx[show_demo_idx + 1][3][1] # demos_b_xdx[show_demo_idx + 1][3][2]
    /\ PoeAt(2) = prod

\* the frame-local observations with every number replaced by its place:
\* timestep, frame and coordinate
Places(f) ==
    [t \in 1..Len(f) |-> [a \in 1..Len(f[t]) |-> [k \in 1..Len(f[t][a]) |-> <<t, a, k>>]]]

\* the two slices of poe, for demonstration i
PoeSlices(i) == << PoeSlice1(demos_b_xdx[i][1]), PoeSlice2(demos_b_xdx[i][1]) >>

\* C7: once get_related_matrix has returned, the slice poe takes for frame p
\* selects of every multi-frame observation exactly the numbers that
\* get_related_matrix put there from frame p's local observation, in order; the
\* two slices are disjoint, have 2 * D indices each, and together are all the
\* indices of the observation.
C7_SlicesAreFrameBlocks ==
    FramesDone =>
        \A i \in 1..Len(demos_x) :
            LET D == Len(demos_x[i][1])
                w == Len(demos_xdx_augm[i][1])
                sl == PoeSlices(i)
                idx == [p \in 1..2 |-> SliceIndices(sl[p][1], sl[p][2], w)]
                places == Reshape(Places(demos_xdx_f[i]), AugmWidth(demos_xdx))
            IN /\ idx[1] \cap idx[2] = {}
               /\ Cardinality(idx[1]) = 2 * D /\ Cardinality(idx[2]) = 2 * D
               /\ idx[1] \cup idx[2] = 1..w
               /\ \A t \in 1..Len(demos_x[i]) : \A p \in 1..2 :
                    /\ SliceSeq(demos_xdx_augm[i][t], sl[p][1], sl[p][2])
                         = demos_xdx_f[i][t][p]
                    /\ SliceSeq(places[t], sl[p][1], sl[p][2])
                         = [k \in 1..(2 * D) |-> <<t, p, k>>]

C7_Witness ==
    /\ FramesDone
    /\ Len(demos_x) = 2
    /\ Len(demos_x[2][1]) = 2
    /\ PoeSlices(2) = << <<0, 4>>, <<4, 8>> >>
    /\ demos_xdx_f[2][2][1] # demos_xdx_f[2][2][2]
    /\ SliceSeq(demos_xdx_augm[2][2], 4, 8) = demos_xdx_f[2][2][2]

(***************************************************************************)
(* C8 - C10                                                                 *)
(***************************************************************************)
\* 1 / (1/v1 + 1/v2) and (m1/v1 + m2/v2) / (1/v1 + 1/v2)
ScalarFusedVariance(v1, v2) ==
    RDiv(RatOf(1), RAdd(RDiv(RatOf(1), RatOf(v1)), RDiv(RatOf(1), RatOf(v2))))
ScalarFusedMean(m1, v1, m2, v2) ==
    RDiv(RAdd(RDiv(RatOf(m1), RatOf(v1)), RDiv(RatOf(m2), RatOf(v2))),
         RAdd(RDiv(RatOf(1), RatOf(v1)), RDiv(RatOf(1), RatOf(v2))))

\* C8: when poe has returned, mod1 and mod2 are the model's marginals of the two
\* frame blocks carried to world coordinates by the transform of timestep 0,
\* and for every component k the precision of the fused component k is the sum
\* of the precisions of component k of mod1 and of mod2, and its mean is the
\* precision-weighted average of their means (precision times mean is the sum
\* of the per-frame precisions times means).  For two scalar Gaussians the
\* product has variance 1/(1/v1 + 1/v2) and mean (m1/v1 + m2/v2)/(1/v1 + 1/v2).
C8_PrecisionsAddComponentwise ==
    tpc = "generate" =>
        LET tr == PoeTransform(demos_A_xdx, demos_b_xdx, show_demo_idx, 0)
            D2 == Len(tr.b[1])
        IN /\ prod.nb_states = model.nb_states
           /\ \A k \in 1..model.nb_states :
                LET l1 == RInverse(RatMat(mod1.sigma[k]))
                    l2 == RInverse(RatMat(mod2.sigma[k]))
                    lp == RInverse(prod.sigma[k])
                IN /\ mod1.mu[k] = VecAdd(MatVec(tr.A[1], SubSeq(model.mu[k], 1, D2)), tr.b[1])
                   /\ mod2.mu[k]
                        = VecAdd(MatVec(tr.A[2], SubSeq(model.mu[k], D2 + 1, 2 * D2)), tr.b[2])
                   /\ lp = RMatAdd(l1, l2)
                   /\ RMatVec(lp, prod.mu[k])
                        = RVecAdd(RMatVec(l1, RatVec(mod1.mu[k])),
                                  RMatVec(l2, RatVec(mod2.mu[k])))
                   /\ LET m1 == mod1.mu[k][1]
                          v1 == mod1.sigma[k][1][1]
                          m2 == mod2.mu[k][1]
                          v2 == mod2.sigma[k][1][1]
                          g == GaussianProduct(<<m1>>, << <<v1>> >>, <<m2>>, << <<v2>> >>)
                      IN /\ g.sigma = << << ScalarFusedVariance(v1, v2) >> >>
                         /\ g.mu = << ScalarFusedMean(m1, v1, m2, v2) >>

C8_Witness ==
    /\ tpc = "generate"
    /\ Len(demos_x[1][1]) = 2
    /\ mod1.sigma[2] # mod2.sigma[2]
    /\ mod1.sigma[2] # mod1.sigma[3]
    /\ mod1.mu[2] # mod2.mu[2]
    /\ prod.sigma[2] # prod.sigma[3]
    /\ prod.sigma[2][1][2] # RatOf(0)
    /\ prod.mu[2][1][2] # 1
    /\ RInverse(prod.sigma[2])
         = RMatAdd(RInverse(RatMat(mod1.sigma[2])), RInverse(RatMat(mod2.sigma[2])))

\* generate's call of viterbi has returned
ViterbiDone == tpc = "lqr"

\* C9: once generate has decoded the demonstration to reproduce, of T timesteps,
\* with a model of K states, the state path has T entries, each an integer
\* from 0 to K - 1.
C9_StatePathShape ==
    ViterbiDone =>
        /\ Len(sq) = Len(demos_x[show_demo_idx + 1])
        /\ \A t \in 1..Len(sq) : sq[t] \in 0..(model.nb_states - 1)

C9_Witness ==
    /\ ViterbiDone
    /\ Len(demos_x) = 2
    /\ Len(demos_x[1]) # Len(demos_x[2])
    /\ show_demo_idx = 1
    /\ Len(sq) = Len(demos_x[2])
    /\ Len(sq) >= 3
    /\ sq[1] # sq[Len(sq)]

\* the accumulated log-scores of the predecessors of state i at timestep t
Candidates(t, i) ==
    ViterbiCandidates(logDELTA[t - 1], model.logTrans, i, model.nb_states)

\* C10: in the tables of the decoding, the backpointer of state i at timestep t
\* is a predecessor of the best accumulated log-score, and whenever two
\* predecessors have the same accumulated log-score the higher-indexed one is
\* not the backpointer; likewise the last state of the path has the best final
\* score and is not the higher-indexed of two states of the same final score.
C10_TiesGoToLowerIndex ==
    ViterbiDone =>
        LET K == model.nb_states
            T == Len(logDELTA)
        IN /\ \A t \in 2..T : \A i \in 1..K :
                /\ \A j \in 1..K : Candidates(t, i)[j] <= Candidates(t, i)[PSI[t][i]]
                /\ \A j1 \in 1..K : \A j2 \in (j1 + 1)..K :
                     Candidates(t, i)[j1] = Candidates(t, i)[j2] => PSI[t][i] # j2
           /\ \A j \in 1..K : logDELTA[T][j] <= logDELTA[T][sq[T] + 1]
           /\ \A j1 \in 1..K : \A j2 \in (j1 + 1)..K :
                logDELTA[T][j1] = logDELTA[T][j2] => sq[T] + 1 # j2
           /\ \A t \in 1..(T - 1) : sq[t] + 1 = PSI[t + 1][sq[t + 1] + 1]

\* a tie for the best score, among predecessors and among final states, none
\* of them the first state, and the tied predecessor is on the decoded path
C10_Witness ==
    /\ ViterbiDone
    /\ Len(logDELTA) >= 2
    /\ \E t \in 2..Len(logDELTA) : \E j1 \in 2..NbStates : \E j2 \in (j1 + 1)..NbStates :
        LET i == sq[t] + 1
        IN /\ Candidates(t, i)[j1] = Candidates(t, i)[j2]
           /\ PSI[t][i] = j1
           /\ sq[t - 1] + 1 = j1
    /\ \E j1 \in 2..NbStates : \E j2 \in (j1 + 1)..NbStates :
        /\ logDELTA[Len(logDELTA)][j1] = logDELTA[Len(logDELTA)][j2]
        /\ sq[Len(sq)] + 1 = j1

(***************************************************************************)
(* C11, C12, C18, C20                                                       *)
(***************************************************************************)
\* generate has configured the tracker
LqrDone == tpc = "seq_xi"

RefMean(t) ==
    LET n == prod.nb_dim IN SubSeq(lqr.mvn_xi.mu, (t - 1) * n + 1, t * n)
RefCov(t, v) ==
    LET n == prod.nb_dim
    IN [r \in 1..n |-> SubSeq(lqr.mvn_xi.sigma[(t - 1) * n + r], (v - 1) * n + 1, v * n)]

\* C12: once generate has configured the tracker, the reference has one mean
\* and one covariance block per timestep of the chosen demonstration, in time
\* order: those of the fused component sq[t]; the covariance between different
\* timesteps is zero.
C12_ReferenceFollowsStatePath ==
    LqrDone =>
        LET T == Len(demos_x[show_demo_idx + 1])
            n == prod.nb_dim
        IN /\ Len(sq) = T
           /\ Len(lqr.mvn_xi.mu) = T * n
           /\ Len(lqr.mvn_xi.sigma) = T * n
           /\ \A r \in 1..(T * n) : Len(lqr.mvn_xi.sigma[r]) = T * n
           /\ \A t \in 1..T :
                /\ RefMean(t) = prod.mu[sq[t] + 1]
                /\ RefCov(t, t) = prod.sigma[sq[t] + 1]
                /\ \A v \in 1..T : v # t => RefCov(t, v) = [r \in 1..n |-> [c \in 1..n |-> RatOf(0)]]

C12_Witness ==
    /\ LqrDone
    /\ Len(sq) >= 3
    /\ sq[1] # sq[Len(sq)]
    /\ sq[1] # 0
    /\ prod.mu[sq[1] + 1] # prod.mu[sq[Len(sq)] + 1]
    /\ RefMean(1) = prod.mu[sq[1] + 1]
    /\ RefMean(Len(sq)) = prod.mu[sq[Len(sq)] + 1]
    /\ RefCov(Len(sq), Len(sq)) # RefCov(1, 1)

C20_TrackerDimensionIsD ==
    LqrDone =>
        LET D == Len(demos_x[show_demo_idx + 1][1])
        IN /\ lqr.nb_dim = D
           /\ Len(lqr.x0) = 2 * lqr.nb_dim
           /\ Len(lqr.mvn_xi.mu) = 2 * lqr.nb_dim * lqr.horizon

(***************************************************************************)
(* lqt_cp.py: uni_cp, define_control_primitive, get_u_x                     *)
(***************************************************************************)
\* Basis names a caller may pass: those of the configuration record's
\* documentation, the spelling of the source's table, and an unknown one.
BasisNames == {"PIECEWISE", "PIECEWEISE", "RBF", "BERNSTEIN", "FOURIER", "SPLINE"}

\* the keys of "functions", lines 13-18
FunctionKeys == {"PIECEWEISE", "RBF", "BERNSTEIN", "FOURIER"}

\* Time step of the synthesis requests.
DtCP == 2

\* "rfactor", the control cost (a whole number here)
RFactor == 1

\* the configuration records of the synthesis requests, lines 129-138
ParamsCP ==
    { [nbData |-> T, nbVarPos |-> n, nbDeriv |-> d, nbFct |-> c, basisName |-> b,
       dt |-> DtCP, rfactor |-> RFactor, nb_var |-> n * d] :
        T \in 2..MaxData, n \in 1..MaxVarPos, d \in {1, 2}, c \in 1..(MaxData - 1),
        b \in BasisNames }

\* uni_cp's data for a record p: the start pose and m via points, each row one
\* number wider than the position
DataSets(p) ==
    { [i \in 1..(m + 1) |-> [k \in 1..(p.nbVarPos + 1) |-> 2 * i + k - 2]] : m \in 1..2 }

\* data[:, :nbVarPos]
SlicePositions(p, d) == [i \in 1..Len(d) |-> SubSeq(d[i], 1, Min(p.nbVarPos, Len(d[i])))]

\* start_pose = zeros(nb_var); start_pose[:nbVarPos] = data[0]
StartPose(p, d) ==
    [k \in 1..p.nb_var |-> IF k <= p.nbVarPos THEN SlicePositions(p, d)[1][k] ELSE 0]

\* via_point_pose = data[1:]
ViaPoints(p, d) == SubSeq(SlicePositions(p, d), 2, Len(d))

\* param['nbPoints'] = len(via_point_pose): the key is added, or overwritten
SetNbPoints(p, n) == ("nbPoints" :> n) @@ p

\* rf.lqt.get_matrices: the timestep (0-based) of via point i of n in a
\* reference of L timesteps; the last via point is at the last timestep
ViaTime(i, n, L) ==
    LET t == ((i * L) \div n) - 1 IN IF t < 0 THEN 0 ELSE t

\* the via point tracked at timestep t (0-based), 0 if none
ViaAt(via, t, L) ==
    IF \E i \in 1..Len(via) : ViaTime(i, Len(via), L) = t
    THEN CHOOSE i \in 1..Len(via) :
            /\ ViaTime(i, Len(via), L) = t
            /\ \A j \in (i + 1)..Len(via) : ViaTime(j, Len(via), L) # t
    ELSE 0

\* rf.lqt.get_matrices: muQ holds the via points' positions at their timesteps,
\* Q has ones on the diagonal at those positions, R = rfactor * I
ReferenceMean(p, via, L) ==
    Eager([r \in 1..(p.nb_var * L) |->
        LET t == (r - 1) \div p.nb_var
            k == ((r - 1) % p.nb_var) + 1
        IN IF ViaAt(via, t, L) # 0 /\ k <= p.nbVarPos THEN via[ViaAt(via, t, L)][k] ELSE 0])
ReferencePrecision(p, via, L) ==
    Eager([r \in 1..(p.nb_var * L) |-> Eager([c \in 1..(p.nb_var * L) |->
        IF r = c /\ ViaAt(via, (r - 1) \div p.nb_var, L) # 0
                 /\ ((r - 1) % p.nb_var) + 1 <= p.nbVarPos
        THEN 1 ELSE 0])])
ControlCost(p) == ScaledIdentity((p.nbData - 1) * p.nbVarPos, p.rfactor)

(***************************************************************************)
(* rf.primitive: the basis builders.  Each returns nb_data rows of nb_fct   *)
(* numbers.  The piecewise basis is the builder's matrix; the others stand   *)
(* for theirs with whole numbers of the same shape and pattern.              *)
(***************************************************************************)
CeilDiv(a, b) == (a + b - 1) \div b

\* np.kron(np.identity(nb_fct), np.ones((ceil(nb_data / nb_fct), 1)))[:nb_data]
build_phi_piecewise(nb_data, nb_fct) ==
    Eager([j \in 1..nb_data |-> Eager([k \in 1..nb_fct |->
        IF (j - 1) \div CeilDiv(nb_data, nb_fct) = k - 1 THEN 1 ELSE 0])])

\* exp(-100 (t_j - mu_k)^2), rounded: 1 where sample j is the centre k
build_phi_rbf(nb_data, nb_fct) ==
    Eager([j \in 1..nb_data |-> Eager([k \in 1..nb_fct |->
        IF nb_fct = 1 \/ nb_data = 1
        THEN (IF j = 1 THEN 1 ELSE 0)
        ELSE (IF (j - 1) * (nb_fct - 1) = (k - 1) * (nb_data - 1) THEN 1 ELSE 0)])])

RECURSIVE Power(_, _)
Power(a, n) == IF n = 0 THEN 1 ELSE a * Power(a, n - 1)

RECURSIVE Binomial(_, _)
Binomial(n, k) ==
    IF k = 0 \/ k = n THEN 1 ELSE Binomial(n - 1, k - 1) + Binomial(n - 1, k)

\* C(nb_fct-1, i) (1 - t)^(nb_fct-1-i) t^i at t = j / (nb_data - 1), times
\* (nb_data - 1)^(nb_fct - 1)
build_phi_bernstein(nb_data, nb_fct) ==
    Eager([j \in 1..nb_data |-> Eager([k \in 1..nb_fct |->
        Binomial(nb_fct - 1, k - 1)
            * Power(nb_data - j, nb_fct - k) * Power(j - 1, k - 1)])])

\* cos(2 pi k t_j): 1 where k t_j is whole, -1 where it is whole and a half,
\* 0 elsewhere
build_phi_fourier(nb_data, nb_fct) ==
    Eager([j \in 1..nb_data |-> Eager([k \in 1..nb_fct |->
        LET den == IF nb_data = 1 THEN 1 ELSE nb_data - 1
            num == (k - 1) * (j - 1)
        IN IF num % den = 0 THEN 1
           ELSE IF (2 * num) % den = 0 THEN -1 ELSE 0])])

\* functions[name](nb_data, nb_fct), for a key of the table
BasisFunctions(name, nb_data, nb_fct) ==
    CASE name = "PIECEWEISE" -> build_phi_piecewise(nb_data, nb_fct)
      [] name = "RBF" -> build_phi_rbf(nb_data, nb_fct)
      [] name = "BERNSTEIN" -> build_phi_bernstein(nb_data, nb_fct)
      [] name = "FOURIER" -> build_phi_fourier(nb_data, nb_fct)

(***************************************************************************)
(* lqt_cp.py: define_control_primitive                                      *)
(***************************************************************************)
\* functions[param["basisName"]] raises KeyError
BasisKeyError(p) == p.basisName \notin FunctionKeys

\* phi = functions[basisName](nbData - 1, nbFct)
ControlPhi(p) ==
    BasisFunctions(p.basisName, p.nbData - 1, p.nbFct)

\* PSI = np.kron(phi, np.identity(nbVarPos))
ControlPSI(p, f) == Kron(f, Identity(p.nbVarPos))

(***************************************************************************)
(* lqt_cp.py: get_u_x                                                       *)
(***************************************************************************)
\* X @ Y raises ValueError: the inner dimensions differ
MatMulRaises(nc, nr) == nc # nr

\* line 50 raises ValueError: a product whose operands do not fit, or the
\* subtraction muQ - Sx @ x0 of columns of different lengths
GetUXRaises(psi, su, sx, q, r, mu) ==
    \/ MatMulRaises(NRows(psi), NCols(su))      \* PSI.T @ Su.T
    \/ MatMulRaises(NRows(su), NRows(q))        \* ... @ Q
    \/ MatMulRaises(NCols(q), NRows(su))        \* ... @ Su
    \/ MatMulRaises(NRows(psi), NRows(r))       \* PSI.T @ R
    \/ MatMulRaises(NCols(r), NRows(psi))       \* ... @ PSI
    \/ (Len(mu) # NRows(sx) /\ Len(mu) # 1 /\ NRows(sx) # 1)

\* PSI.T @ Su.T @ Q @ Su @ PSI + PSI.T @ R @ PSI
NormalMatrix(psi, su, q, r) ==
    LET sp == MatMul(su, psi)
        tracking == MatMul(MatMul(Transpose(sp), q), sp)
        effort == MatMul(MatMul(Transpose(psi), r), psi)
    IN Eager([a \in 1..NCols(psi) |-> Eager([b \in 1..NCols(psi) |->
          tracking[a][b] + effort[a][b]])])

\* A plausible slip: the initial state is left out of the residual.
Residual_NoInitialState(mu, sx, xinit) == mu

\* muQ - Sx @ x0
Residual(mu, sx, xinit) == VecSub(mu, MatVec(sx, xinit))

\* PSI.T @ Su.T @ Q @ (muQ - Sx @ x0)
NormalRhs(psi, su, sx, q, mu, xinit) ==
    MatVec(Transpose(MatMul(su, psi)), MatVec(q, Residual(mu, sx, xinit)))

\* Elimination on the diagonal meets a zero pivot: for the symmetric positive
\* semidefinite matrices of line 50 that is when the matrix is singular.
RECURSIVE ZeroPivot(_, _, _)
ZeroPivot(X, k, n) ==
    IF k > n THEN FALSE
    ELSE IF X[k][k][1] = 0 THEN TRUE
    ELSE LET next == Eager([r \in 1..n |->
                        IF r <= k THEN X[r]
                        ELSE Eager([c \in 1..n |->
                                RSub(X[r][c], RDiv(RMul(X[r][k], X[k][c]), X[k][k]))])])
         IN ZeroPivot(next, k + 1, n)
Singular(X) == ZeroPivot(RatMat(X), 1, NRows(X))

\* w_hat = np.linalg.inv(...) @ ..., of a matrix that is not singular
SolveWeights(psi, su, sx, q, r, mu, xinit) ==
    RMatVec(RInverse(RatMat(NormalMatrix(psi, su, q, r))),
            RatVec(NormalRhs(psi, su, sx, q, mu, xinit)))

\* What np.linalg.inv may hand back for a singular matrix when it does not
\* raise: numbers without meaning, of the right shape.
GarbageWeights(n) == { [k \in 1..n |-> RatOf(0)], [k \in 1..n |-> RatOf(k)] }

\* v.reshape((-1, w)) of a stacked vector
ReshapeRows(v, w) ==
    Eager([t \in 1..(Len(v) \div w) |-> SubSeq(v, (t - 1) * w + 1, t * w)])

\* A plausible slip: the states are cut into rows as wide as the position.
XHatWidth_Position(p) == p.nbVarPos

\* the row widths of x_hat and u_hat, lines 52-53
XHatWidth(p) == p.nb_var
UHatWidth(p) == p.nbVarPos

\* u_hat = PSI @ w_hat (stacked)
StackedControl(psi, w) == RMatVec(RatMat(psi), w)

\* Sx @ x0 + Su @ u_hat (stacked)
StackedState(sx, su, xinit, uu) ==
    RVecAdd(RatVec(MatVec(sx, xinit)), RMatVec(RatMat(su), uu))

\* lines 51-53 for the weights w: what get_u_x returns
GetUXResult(p, psi, su, sx, xinit, w) ==
    LET uu == StackedControl(psi, w)
    IN [w_hat |-> w,
        u_hat |-> ReshapeRows(uu, UHatWidth(p)),
        x_hat |-> ReshapeRows(StackedState(sx, su, xinit, uu), XHatWidth(p))]

(***************************************************************************)
(* The synthesis requests: uni_cp(param, data), and get_u_x called by a     *)
(* caller that prepared its arguments itself, with a reference of refLen     *)
(* timesteps.                                                                *)
(***************************************************************************)
\* the timesteps of a direct caller's reference, for a horizon of T
RefLens(T) == {T - 1, T, T + 1}

InitCP ==
    /\ param \in ParamsCP
    /\ param0 = param
    /\ entry \in {"uni_cp", "get_u_x"}
    /\ \E d \in DataSets(param) :
        IF entry = "uni_cp"
        THEN /\ data = d
             /\ refLen = 0
             /\ start_pose = <<>> /\ via_point_pose = <<>>
             /\ muQ = <<>> /\ Q = <<>> /\ R = <<>>
             /\ lpc = "uni_cp"
        ELSE /\ data = d
             /\ refLen \in RefLens(param.nbData)
             /\ start_pose = StartPose(param, d)
             /\ via_point_pose = ViaPoints(param, d)
             /\ muQ = ReferenceMean(param, ViaPoints(param, d), refLen)
             /\ Q = ReferencePrecision(param, ViaPoints(param, d), refLen)
             /\ R = ControlCost(param)
             /\ lpc = "define_control_primitive"
    /\ phi = <<>> /\ PSI_cp = <<>> /\ w_hat = <<>> /\ u_hat = <<>> /\ x_hat = <<>>
    /\ x0 = <<>> /\ u = <<>>
    /\ A = <<>> /\ B = <<>> /\ Su = <<>> /\ Sx = <<>> /\ M = <<>> /\ li = 0
    /\ TpIdle
    /\ ExtIdle

\* uni_cp, lines 59-65
uni_cp_begin ==
    /\ lpc = "uni_cp"
    /\ data' = SlicePositions(param, data)
    /\ start_pose' = StartPose(param, data)
    /\ via_point_pose' = ViaPoints(param, data)
    /\ param' = SetNbPoints(param, Len(ViaPoints(param, data)))
    /\ lpc' = "get_matrices"
    /\ UNCHANGED <<entry, param0, refLen, muQ, Q, R, phi, PSI_cp, w_hat, u_hat, x_hat>>
    /\ UNCHANGED <<x0, u, A, B, Su, Sx, M, li, tpVars, extVars>>

\* uni_cp, line 67: the reference has one timestep per data point
get_matrices ==
    /\ lpc = "get_matrices"
    /\ refLen' = param.nbData
    /\ muQ' = ReferenceMean(param, via_point_pose, param.nbData)
    /\ Q' = ReferencePrecision(param, via_point_pose, param.nbData)
    /\ R' = ControlCost(param)
    /\ lpc' = "define_control_primitive"
    /\ UNCHANGED <<entry, param0, data, start_pose, via_point_pose, phi, PSI_cp,
                   w_hat, u_hat, x_hat>>
    /\ UNCHANGED <<param, x0, u, A, B, Su, Sx, M, li, tpVars, extVars>>

\* lines 12-21: a name that is not a key of the table raises KeyError
define_control_primitive ==
    /\ lpc = "define_control_primitive"
    /\ IF BasisKeyError(param)
       THEN /\ lpc' = "KeyError"
            /\ UNCHANGED <<phi, PSI_cp>>
       ELSE /\ phi' = ControlPhi(param)
            /\ PSI_cp' = ControlPSI(param, ControlPhi(param))
            /\ lpc' = "start"
    /\ UNCHANGED <<entry, param0, data, start_pose, via_point_pose, refLen, muQ, Q, R,
                   w_hat, u_hat, x_hat>>
    /\ UNCHANGED <<param, x0, u, A, B, Su, Sx, M, li, tpVars, extVars>>

\* lines 49-54.  Operands that do not fit raise ValueError.  Of a singular
\* matrix np.linalg.inv raises LinAlgError, or, where rounding hides the zero
\* pivot, hands back numbers without meaning.
get_u_x ==
    /\ lpc = "done"
    /\ entry # "none"
    /\ x0' = start_pose
    /\ IF GetUXRaises(PSI_cp, Su, Sx, Q, R, muQ)
       THEN /\ lpc' = "ValueError"
            /\ UNCHANGED <<w_hat, u_hat, x_hat>>
       ELSE IF Singular(NormalMatrix(PSI_cp, Su, Q, R))
       THEN \/ /\ lpc' = "LinAlgError"
               /\ UNCHANGED <<w_hat, u_hat, x_hat>>
            \/ \E w \in GarbageWeights(NCols(PSI_cp)) :
                LET res == GetUXResult(param, PSI_cp, Su, Sx, start_pose, w)
                IN /\ w_hat' = res.w_hat /\ u_hat' = res.u_hat /\ x_hat' = res.x_hat
                   /\ lpc' = "got_u_x"
       ELSE LET res == GetUXResult(param, PSI_cp, Su, Sx, start_pose,
                           SolveWeights(PSI_cp, Su, Sx, Q, R, muQ, start_pose))
            IN /\ w_hat' = res.w_hat /\ u_hat' = res.u_hat /\ x_hat' = res.x_hat
               /\ lpc' = "got_u_x"
    /\ UNCHANGED <<entry, param0, data, start_pose, via_point_pose, refLen, muQ, Q, R,
                   phi, PSI_cp>>
    /\ UNCHANGED <<param, u, A, B, Su, Sx, M, li, tpVars, extVars>>

\* uni_cp, lines 73-75
uni_cp_return ==
    /\ lpc = "got_u_x"
    /\ entry = "uni_cp"
    /\ lpc' = "return"
    /\ UNCHANGED <<param, x0, u, A, B, Su, Sx, M, li, cpVars, tpVars, extVars>>

NextCP ==
    \/ uni_cp_begin
    \/ get_matrices
    \/ define_control_primitive
    \/ set_dynamical_system_begin
    \/ set_dynamical_system_iter
    \/ set_dynamical_system_return
    \/ get_u_x
    \/ uni_cp_return

SpecCP == InitCP /\ [][NextCP]_vars

(***************************************************************************)
(* Both synthesizers: a uni run, or a request to the control-primitive      *)
(* tracker.                                                                  *)
(***************************************************************************)
InitSynthesis == Init \/ InitCP

NextSynthesis == Next \/ NextCP

SpecSynthesis == InitSynthesis /\ [][NextSynthesis]_vars

(***************************************************************************)
(* C13                                                                      *)
(***************************************************************************)
\* get_u_x has been called and has ended, by a return or by an exception
GetUXEnded ==
    /\ entry # "none"
    /\ lpc \in {"ValueError", "LinAlgError", "got_u_x", "return"}

\* get_u_x has returned
GetUXReturned ==
    /\ entry # "none"
    /\ lpc \in {"got_u_x", "return"}

\* C13: a get_u_x call whose horizon nbData differs from the number of
\* timesteps of its reference ends with ValueError and returns neither states
\* nor controls; and the tracker generate configures has the length of the
\* decoded state path as its horizon, with a reference of that many timesteps.
C13_HorizonMismatchRejected ==
    /\ (GetUXEnded /\ refLen # param.nbData) =>
          (lpc = "ValueError" /\ w_hat = <<>> /\ u_hat = <<>> /\ x_hat = <<>>)
    /\ LqrDone =>
          (/\ lqr.horizon = Len(sq)
           /\ Len(lqr.mvn_xi.mu) = lqr.horizon * prod.nb_dim)

\* a direct call with a reference one timestep longer than the horizon, for a
\* basis of the table, has been rejected
C13_Witness ==
    /\ entry = "get_u_x"
    /\ refLen = param.nbData + 1
    /\ Len(muQ) = param.nb_var * (param.nbData + 1)
    /\ NRows(Su) = param.nb_var * param.nbData
    /\ x0 = start_pose /\ start_pose # <<>>
    /\ lpc = "ValueError"
    /\ x_hat = <<>>

(***************************************************************************)
(* C14                                                                      *)
(***************************************************************************)
\* define_control_primitive has been called and has ended
PrimitiveEnded ==
    /\ entry # "none"
    /\ lpc \notin {"uni_cp", "get_matrices", "define_control_primitive"}

\* C14: define_control_primitive returns PSI and phi for the names PIECEWISE,
\* RBF, BERNSTEIN and FOURIER, and for every other name raises and returns
\* nothing.
C14_AcceptedBasisNames ==
    PrimitiveEnded =>
        IF param.basisName \in {"PIECEWISE", "RBF", "BERNSTEIN", "FOURIER"}
        THEN lpc # "KeyError" /\ phi # <<>> /\ PSI_cp # <<>>
        ELSE lpc = "KeyError" /\ phi = <<>> /\ PSI_cp = <<>>

(***************************************************************************)
(* C15                                                                      *)
(***************************************************************************)
\* C15: whenever get_u_x returns, the states are nbData rows of nb_var numbers
\* and the controls nbData - 1 rows of nbVarPos numbers, whatever the basis
\* and the number of basis functions.
C15_TrajectoryShapes ==
    GetUXReturned =>
        /\ Len(x_hat) = param.nbData
        /\ \A t \in 1..Len(x_hat) : Len(x_hat[t]) = param.nb_var
        /\ Len(u_hat) = param.nbData - 1
        /\ \A t \in 1..Len(u_hat) : Len(u_hat[t]) = param.nbVarPos

\* a return for fewer basis functions than controls, positions and velocities
C15_Witness ==
    /\ GetUXReturned
    /\ param.basisName = "RBF"
    /\ param.nbData = 3 /\ param.nbFct = 1
    /\ param.nbDeriv = 2 /\ param.nbVarPos = 2
    /\ Len(w_hat) = 2
    /\ Len(x_hat) = 3 /\ Len(x_hat[3]) = 4
    /\ Len(u_hat) = 2 /\ Len(u_hat[2]) = 2

(***************************************************************************)
(* C16                                                                      *)
(***************************************************************************)
\* C16: whenever get_u_x returns, the first state of the trajectory is the
\* initial state; the first nb_var rows of Sx are the identity and those of Su
\* are zero.
C16_FirstStateIsInitialState ==
    GetUXReturned =>
        /\ x0 = start_pose
        /\ x_hat[1] = RatVec(x0)
        /\ SubSeq(Sx, 1, param.nb_var) = Identity(param.nb_var)
        /\ SubSeq(Su, 1, param.nb_var) = Zeros(param.nb_var, NCols(Su))

\* a return with an initial state and controls that are not zero, the state
\* moving away from the initial one
C16_Witness ==
    /\ GetUXReturned
    /\ x0 # [k \in 1..param.nb_var |-> 0]
    /\ \E k \in 1..param.nbVarPos : u_hat[1][k][1] # 0
    /\ x_hat[1] = RatVec(start_pose)
    /\ x_hat[2] # x_hat[1]

(***************************************************************************)
(* C17                                                                      *)
(***************************************************************************)
\* The full-horizon solve: the controls that minimise the cost, optimised
\* directly, u = (Su.T Q Su + R)^-1 Su.T Q (muQ - Sx x0).
FullHorizonControl(su, sx, q, r, mu, xinit) ==
    LET normal == Eager([a \in 1..NCols(su) |-> Eager([b \in 1..NCols(su) |->
                      MatMul(MatMul(Transpose(su), q), su)[a][b] + r[a][b]])])
        rhs == MatVec(Transpose(su), MatVec(q, VecSub(mu, MatVec(sx, xinit))))
    IN RMatVec(RInverse(RatMat(normal)), RatVec(rhs))

\* C17: when get_u_x returns for the piecewise-constant basis with
\* nbFct = nbData - 1, phi and PSI are identities and the controls and states
\* are those of the full-horizon solve.
C17_MaximalPiecewiseBasisIsFullHorizon ==
    (/\ GetUXReturned
     /\ param.basisName = "PIECEWEISE"
     /\ param.nbFct = param.nbData - 1) =>
        LET full == FullHorizonControl(Su, Sx, Q, R, muQ, x0)
        IN /\ phi = Identity(param.nbData - 1)
           /\ PSI_cp = Identity((param.nbData - 1) * param.nbVarPos)
           /\ u_hat = ReshapeRows(full, param.nbVarPos)
           /\ x_hat = ReshapeRows(RVecAdd(RatVec(MatVec(Sx, x0)), RMatVec(RatMat(Su), full)),
                                  param.nb_var)

\* two piecewise-constant functions for three data points, positions and
\* velocities, with controls that are not zero
C17_Witness ==
    /\ GetUXReturned
    /\ param.basisName = "PIECEWEISE"
    /\ param.nbData = 3 /\ param.nbFct = 2
    /\ param.nbDeriv = 2
    /\ PSI_cp = Identity(2 * param.nbVarPos)
    /\ x0 # [k \in 1..param.nb_var |-> 0]
    /\ \E t \in 1..2 : u_hat[t][1][1] # 0

(***************************************************************************)
(* C19                                                                      *)
(***************************************************************************)
\* uni_cp has returned, or has ended by an exception
UniCpEnded ==
    /\ entry = "uni_cp"
    /\ lpc \in {"return", "KeyError", "ValueError", "LinAlgError"}

\* C19: when uni_cp(param, data) has returned or failed, param has the keys
\* and the values it had before the call.
C19_ParamNeverMutated ==
    UniCpEnded =>
        /\ DOMAIN param = DOMAIN param0
        /\ \A k \in DOMAIN param0 : param[k] = param0[k]

(***************************************************************************)
(* C21                                                                      *)
(***************************************************************************)
\* HMM_learning has returned a model
FitDone == tpc \in {"poe", "generate", "lqr", "seq_xi"}

\* the stages of uni, in the order of lines 109-112; an exception ends the run
StageNumber ==
    CASE tpc = "get_dx" -> 1
      [] tpc = "get_A_b" -> 2
      [] tpc = "frames" -> 3
      [] tpc = "HMM_learning" -> 4
      [] tpc = "poe" -> 5
      [] tpc = "generate" -> 6
      [] tpc = "lqr" -> 7
      [] tpc = "seq_xi" -> 8
      [] OTHER -> 9

\* what is left to do never grows: the stage, then the loops' counters
Progress == StageNumber * (MaxT + NbMaxSteps + 2 * MaxCalls + 8) + ti + em_it + 2 * calls

StageArtifacts ==
    /\ (tpc \in {"get_dx", "get_A_b", "frames"}) =>
          (demos_xdx_augm = <<>> /\ em_it = 0 /\ model = NoGmm)
    /\ (tpc = "HMM_learning") =>
          (/\ Len(demos_xdx_augm) = Len(demos_x)
           /\ Len(demos_xdx_f) = Len(demos_x)
           /\ model = NoGmm /\ prod = NoGmm /\ sq = <<>>)
    /\ (tpc = "poe") =>
          (/\ model # NoGmm
           /\ model.nb_dim = Len(demos_xdx_augm[1][1])
           /\ mod1 = NoGmm /\ mod2 = NoGmm /\ prod = NoGmm /\ sq = <<>> /\ lqr = NoLqr)
    /\ (tpc = "generate") =>
          (/\ model # NoGmm
           /\ prod # NoGmm
           /\ prod.nb_states = model.nb_states
           /\ 2 * prod.nb_dim = model.nb_dim
           /\ sq = <<>> /\ lqr = NoLqr)
    /\ (tpc = "lqr" /\ calls = 1) =>
          (/\ prod # NoGmm
           /\ Len(sq) = Len(demos_xdx_augm[show_demo_idx + 1])
           /\ \A t \in 1..Len(sq) : sq[t] \in 0..(model.nb_states - 1)
           /\ lqr = NoLqr)
    /\ (tpc = "seq_xi") =>
          (/\ Len(lqr.mvn_xi.mu) = Len(sq) * prod.nb_dim
           /\ SubSeq(lqr.mvn_xi.mu, 1, prod.nb_dim) = prod.mu[sq[1] + 1]
           /\ lqr.x0 = demos_xdx[show_demo_idx + 1][1])

\* C22: in a run of uni the stages follow one another in the order frames and
\* augmentation, fitting, fusion, decoding, synthesis, none of them left out;
\* a stage starts with the artifacts of the stages before it made and those
\* of the stages after it not yet made; fusion and decoding use the model of
\* the run, synthesis its fused model and state path.
C22_StagesInOrder ==
    /\ []StageArtifacts
    /\ [][\/ StageNumber' = StageNumber
          \/ StageNumber' = StageNumber + 1
          \/ tpc' = "IndexError"]_vars

\* a run that went through all stages
C22_Witness ==
    /\ tpc = "seq_xi" /\ calls = 1
    /\ em_it = NbMaxSteps
    /\ model # NoGmm /\ mod1 # NoGmm /\ mod2 # NoGmm /\ prod # NoGmm
    /\ Len(sq) >= 2
    /\ lqr # NoLqr
    /\ SubSeq(lqr.mvn_xi.mu, 1, prod.nb_dim) = prod.mu[sq[1] + 1]

(***************************************************************************)
(* C29                                                                      *)
(***************************************************************************)
\* the position block of a frame-local observation of dimension 2 * D
PositionBlock(f) == SubSeq(f, 1, Len(f) \div 2)
\* the velocity block of an offset of dimension 2 * D
VelocityBlock(b) == SubSeq(b, (Len(b) \div 2) + 1, Len(b))

\* C29: once get_related_matrix has returned, for every demonstration the
\* position block of the frame-local observation is zero in the start frame
\* at the first timestep and in the end frame at the last timestep; the
\* start frame's offset holds the first position, the end frame's the last,
\* and the velocity block of every offset is zero.
C29_FrameOriginsAreZero ==
    FramesDone =>
        \A i \in 1..Len(demos_x) :
            LET x == demos_x[i]
                T == Len(x)
                D == Len(x[1])
                zero == [k \in 1..D |-> 0]
            IN /\ PositionBlock(demos_xdx_f[i][1][1]) = zero
               /\ PositionBlock(demos_xdx_f[i][T][2]) = zero
               /\ \A t \in 1..T :
                    /\ PositionBlock(demos_b_xdx[i][t][1]) = x[1]
                    /\ PositionBlock(demos_b_xdx[i][t][2]) = x[T]
                    /\ VelocityBlock(demos_b_xdx[i][t][1]) = zero
                    /\ VelocityBlock(demos_b_xdx[i][t][2]) = zero

\* a demonstration that ends away from where it starts, moving at its first
\* timestep: the observation is zero in position only, and only in the frame
\* of that end
C29_Witness ==
    /\ FramesDone
    /\ \E i \in 1..Len(demos_x) :
        LET x == demos_x[i]
            T == Len(x)
            D == Len(x[1])
            zero == [k \in 1..D |-> 0]
        IN /\ T >= 2
           /\ x[1] # x[T]
           /\ x[1] # zero
           /\ PositionBlock(demos_xdx_f[i][1][1]) = zero
           /\ PositionBlock(demos_xdx_f[i][1][2]) # zero
           /\ PositionBlock(demos_xdx_f[i][T][1]) # zero
           /\ demos_xdx_f[i][1][1] # zero \o zero

(***************************************************************************)
(* C28                                                                      *)
(***************************************************************************)
\* the stacked trajectory Sx x0 + Su uu of another control sequence
TrajectoryOf(uu) == VecAdd(MatVec(Sx, x0), MatVec(Su, uu))

\* uu and u are the same on the controls u_0 .. u_(t-1)
SameControlsBefore(uu, t) ==
    \A s \in 0..(t - 1) : ControlAt(param, uu, s) = ControlAt(param, u, s)

\* block (t, s) of Su: the effect of control u_s on the state x_t
SuBlock(t, s) ==
    [r \in 1..param.nb_var |-> [c \in 1..param.nbVarPos |->
        Su[t * param.nb_var + r][s * param.nbVarPos + c]]]

\* C28: when set_dynamical_system has returned, every block (t, s) of Su with
\* s >= t is zero, and two control sequences that agree on u_0 .. u_(t-1) give
\* the same states at the timesteps 0..t of Sx x0 + Su u.
C28_ControlsDoNotAffectEarlierStates ==
    lpc = "done" =>
        \A t \in 0..(param.nbData - 1) :
            /\ \A s \in t..(param.nbData - 2) :
                   SuBlock(t, s) = Zeros(param.nb_var, param.nbVarPos)
            /\ \A uu \in InputVecs(Len(u)) :
                   SameControlsBefore(uu, t) =>
                       \A k \in 0..t :
                           BlockOf(TrajectoryOf(uu), k) = BlockOf(StackedTrajectory, k)

C28_Witness ==
    /\ lpc = "done"
    /\ param.nbData >= 3
    /\ \E uu \in InputVecs(Len(u)) :
           /\ SameControlsBefore(uu, 1)
           /\ ControlAt(param, uu, 1) # ControlAt(param, u, 1)
           /\ BlockOf(TrajectoryOf(uu), 1) = BlockOf(StackedTrajectory, 1)
           /\ BlockOf(TrajectoryOf(uu), 2) # BlockOf(StackedTrajectory, 2)

(***************************************************************************)
(* td3_agent.py: TD3Agent.update_net                                        *)
(***************************************************************************)
MaxDelay == 3           \* largest policy_update_delay
MaxGradientSteps == 3   \* largest gradient_steps
MaxUpdateCalls == 4     \* update_net calls on one agent

\* A plausible slip: the delay is counted with the loop variable of the call.
PolicyUpdateDue_PerCall(count, gstep, delay) == (gstep + 1) % delay = 0

\* if self._critic_update_times % self._policy_update_delay == 0
PolicyUpdateDue(count, gstep, delay) == count % delay = 0

\* __init__ and _set_up: the counter is 0, the targets are hard copies
InitTD3 ==
    /\ td3pc = "ready"
    /\ policy_update_delay \in 1..MaxDelay
    /\ gradient_steps \in 1..MaxGradientSteps
    /\ gradient_step = 0
    /\ critic_update_times = 0
    /\ critic_steps = 0 /\ actor_steps = 0
    /\ target_updates = <<0, 0, 0>>
    /\ update_calls = 0
    /\ LqtIdle /\ TpIdle /\ BiIdle /\ AgentIdle /\ SimIdle /\ TrainerIdle

\* lines 183-185: update_net samples a batch; the loop begins
update_net_begin ==
    /\ td3pc = "ready"
    /\ update_calls < MaxUpdateCalls
    /\ update_calls' = update_calls + 1
    /\ gradient_step' = 0
    /\ td3pc' = "loop"
    /\ UNCHANGED <<policy_update_delay, gradient_steps, critic_update_times, critic_steps,
                   actor_steps, target_updates>>
    /\ UNCHANGED <<lqtVars, tpVars, biVars, agentVars, simVars, trainerVars>>

\* lines 188-247: one iteration of "for gradient_step in range(self._gradient_steps)"
update_net_gradient_step ==
    /\ td3pc = "loop"
    /\ gradient_step < gradient_steps
    /\ critic_steps' = critic_steps + 1
    /\ critic_update_times' = critic_update_times + 1
    /\ IF PolicyUpdateDue(critic_update_times + 1, gradient_step, policy_update_delay)
       THEN /\ actor_steps' = actor_steps + 1
            /\ target_updates' = [k \in 1..3 |-> target_updates[k] + 1]
       ELSE UNCHANGED <<actor_steps, target_updates>>
    /\ gradient_step' = gradient_step + 1
    /\ UNCHANGED <<td3pc, policy_update_delay, gradient_steps, update_calls>>
    /\ UNCHANGED <<lqtVars, tpVars, biVars, agentVars, simVars, trainerVars>>

\* the loop is exhausted: update_net returns
update_net_return ==
    /\ td3pc = "loop"
    /\ gradient_step >= gradient_steps
    /\ td3pc' = "ready"
    /\ UNCHANGED <<policy_update_delay, gradient_steps, gradient_step, critic_update_times,
                   critic_steps, actor_steps, target_updates, update_calls>>
    /\ UNCHANGED <<lqtVars, tpVars, biVars, agentVars, simVars, trainerVars>>

NextTD3 ==
    \/ update_net_begin
    \/ update_net_gradient_step
    \/ update_net_return

SpecTD3 == InitTD3 /\ [][NextTD3]_vars

(***************************************************************************)
(* C26                                                                      *)
(***************************************************************************)
\* C26: every gradient step of update_net updates the critics; it updates the
\* actor exactly when the count of critic updates, kept across the calls, has
\* become a multiple of policy_update_delay, and then and only then the three
\* target networks; after n critic updates the actor and each target network
\* have been updated floor(n / policy_update_delay) times.
C26_DelayedPolicyUpdates ==
    /\ [](td3pc # "idle" =>
            /\ critic_steps = critic_update_times
            /\ actor_steps = critic_update_times \div policy_update_delay
            /\ target_updates = <<actor_steps, actor_steps, actor_steps>>)
    /\ [][gradient_step' = gradient_step + 1 =>
            /\ critic_steps' = critic_steps + 1
            /\ (actor_steps' = actor_steps + 1) <=>
                   (critic_steps' % policy_update_delay = 0)
            /\ actor_steps' \in {actor_steps, actor_steps + 1}
            /\ (target_updates' # target_updates) => (actor_steps' # actor_steps)]_vars

C26_Witness ==
    /\ td3pc = "ready"
    /\ update_calls >= 2
    /\ policy_update_delay = 3
    /\ gradient_steps = 2
    /\ critic_update_times = 4
    /\ actor_steps = 1

(***************************************************************************)
(* td3_trainer.py: TD3Trainer.get_action                                    *)
(***************************************************************************)
MaxStep == 2            \* largest self._step, random_steps and exploration steps
MaxActionDim == 2       \* largest number of action components

\* self._exploration_steps is None
None == -1

\* cfg.Agent.exploration.initial_scale and final_scale
ExplorationInitialScale == 1
ExplorationFinalScale == 0
\* env.action_space.low and high
ClipActionsMin == -1
ClipActionsMax == 1

\* the values of an action component and of a noise sample
ActionValues == {-1, 0, 1}
NoiseValues == {-2, 0, 1}

ActionVecs == UNION { [1..n -> ActionValues] : n \in 1..MaxActionDim }
NoiseVecs(n) == [1..n -> NoiseValues]

RLess(a, b) == a[1] * b[2] < b[1] * a[2]

\* actions.clamp_(min=self.clip_actions_min, max=self.clip_actions_max)
Clamp(v) ==
    Eager([k \in 1..Len(v) |->
        IF RLess(v[k], RatOf(ClipActionsMin)) THEN RatOf(ClipActionsMin)
        ELSE IF RLess(RatOf(ClipActionsMax), v[k]) THEN RatOf(ClipActionsMax)
        ELSE v[k]])

\* line 32: if self._step < self.random_steps and False
ExplorationBranch(st, rs) == st < rs /\ FALSE

\* lines 38-39: if self._exploration_steps is None: self._exploration_steps = self._step
ExplorationStepsAfter(st, es) == IF es = None THEN st ELSE es

\* lines 43-45: (1 - step / exploration_steps) * (initial - final) + final
ExplorationScale(st, es) ==
    RAdd(RMul(RSub(RatOf(1), RDiv(RatOf(st), RatOf(es))),
              RatOf(ExplorationInitialScale - ExplorationFinalScale)),
         RatOf(ExplorationFinalScale))

\* lines 46-50: noises.mul_(scale); actions.add_(noises); actions.clamp_(...)
NoisyActions(acts, ns, st, es) ==
    Clamp(Eager([k \in 1..Len(acts) |->
        RAdd(RatOf(acts[k]), RMul(ExplorationScale(st, es), RatOf(ns[k])))]))

\* the trainer at any step of its run
InitTrainer ==
    /\ trpc = "ready"
    /\ step \in 0..MaxStep
    /\ random_steps \in 0..MaxStep
    /\ exploration_steps \in {None} \cup 1..MaxStep
    /\ base_actions = <<>> /\ noises = <<>> /\ actions = <<>>
    /\ LqtIdle /\ TpIdle /\ BiIdle /\ AgentIdle /\ SimIdle /\ Td3Idle

\* get_action, lines 28-63
get_action ==
    /\ trpc = "ready"
    /\ \E acts \in ActionVecs : \E ns \in NoiseVecs(Len(acts)) :
        /\ base_actions' = acts
        /\ noises' = ns
        /\ IF ExplorationBranch(step, random_steps)
           THEN LET es == ExplorationStepsAfter(step, exploration_steps) IN
                /\ exploration_steps' = es
                /\ IF step <= es
                   THEN IF es = 0
                        THEN trpc' = "ZeroDivisionError" /\ actions' = <<>>
                        ELSE trpc' = "acted" /\ actions' = NoisyActions(acts, ns, step, es)
                   ELSE trpc' = "acted" /\ actions' = RatVec(acts)
           ELSE /\ trpc' = "acted"
                /\ actions' = RatVec(acts)
                /\ UNCHANGED exploration_steps
    /\ UNCHANGED <<step, random_steps>>
    /\ UNCHANGED <<lqtVars, tpVars, biVars, agentVars, simVars, td3Vars>>

\* post_interaction, lines 65-72: the base trainer counts the step
post_interaction ==
    /\ trpc = "acted"
    /\ step < MaxStep
    /\ step' = step + 1
    /\ trpc' = "ready"
    /\ UNCHANGED <<random_steps, exploration_steps, base_actions, noises, actions>>
    /\ UNCHANGED <<lqtVars, tpVars, biVars, agentVars, simVars, td3Vars>>

NextTrainer ==
    \/ get_action
    \/ post_interaction

SpecTrainer == InitTrainer /\ [][NextTrainer]_vars

(***************************************************************************)
(* C27                                                                      *)
(***************************************************************************)
\* C27: whenever get_action has returned at a step below random_steps, the
\* returned actions are the base trainer's actions plus the scaled exploration
\* noise, clamped to [clip_actions_min, clip_actions_max].
C27_ExplorationNoiseAdded ==
    (trpc = "acted" /\ step < random_steps /\ step < ExplorationStepsAfter(step, exploration_steps)) =>
        actions = NoisyActions(base_actions, noises, step,
                               ExplorationStepsAfter(step, exploration_steps))

(***************************************************************************)
(* base_agent.py: BaseAgent.store_transition                                *)
(***************************************************************************)
MaxEnvs == 2            \* largest number of environments
MaxTransitions == 3     \* store_transition calls on one agent
TrackMaxLen == 3        \* maxlen of the two deques (100 in the source)

\* the rewards of one step: the same for every environment, or growing with it
RewardVecs(n) == { [e \in 1..n |-> 1], [e \in 1..n |-> e + 1] }

\* torch.zeros_like(rewards)
ZerosLike(r) == Eager([e \in 1..Len(r) |-> 0])

\* in place add_: element by element
AddVec(c, r) == Eager([e \in 1..Len(c) |-> c[e] + r[e]])
AddScalar(c, k) == Eager([e \in 1..Len(c) |-> c[e] + k])

\* the 0-based environments with a nonzero entry, in increasing order
RECURSIVE NonZeroEnvs(_, _)
NonZeroEnvs(d, n) ==
    IF n = 0 THEN << >>
    ELSE IF d[n] THEN Append(NonZeroEnvs(d, n - 1), n - 1) ELSE NonZeroEnvs(d, n - 1)

\* (terminated + truncated).nonzero(as_tuple=False): one row of coordinates per
\* nonzero entry, <<e>> for a tensor of shape (n,), <<e, 0>> for one of shape (n, 1)
NonZero(d, dim) ==
    LET envs == NonZeroEnvs(d, Len(d))
    IN Eager([i \in 1..Len(envs) |-> IF dim = 1 THEN <<envs[i]>> ELSE <<envs[i], 0>>])

\* c[finished_episodes][:, 0].reshape(-1).tolist(): indexing the first dimension
\* with the coordinate rows, then the first entry of each row
Tracked(c, fin) == Eager([i \in 1..Len(fin) |-> c[fin[i][1] + 1]])

\* c[finished_episodes] = 0: every number in finished_episodes indexes the
\* first dimension
ResetFinished(c, fin) ==
    Eager([e \in 1..Len(c) |->
        IF \E i \in 1..Len(fin) : \E j \in 1..Len(fin[i]) : fin[i][j] = e - 1
        THEN 0 ELSE c[e]])

\* deque.extend with maxlen: the oldest entries are dropped
DequeExtend(q, xs) ==
    LET all == q \o xs
    IN IF Len(all) <= TrackMaxLen THEN all
       ELSE SubSeq(all, Len(all) - TrackMaxLen + 1, Len(all))

\* __init__, lines 50-54; rewards and dones have one entry per environment
InitAgent ==
    /\ apc = "constructed"
    /\ tensor_dim \in {1, 2}
    /\ \E n \in 1..MaxEnvs :
        /\ rewards = [e \in 1..n |-> 0]
        /\ dones = [e \in 1..n |-> FALSE]
    /\ cumulative_rewards = <<>> /\ cumulative_timesteps = <<>>
    /\ track_rewards = <<>> /\ track_timesteps = <<>>
    /\ before = <<>>
    /\ transitions = 0
    /\ LqtIdle /\ TpIdle /\ BiIdle /\ SimIdle /\ Td3Idle /\ TrainerIdle

\* store_transition, lines 63-84
store_transition ==
    /\ apc \in {"constructed", "stored"}
    /\ transitions < MaxTransitions
    /\ \E r \in RewardVecs(Len(rewards)) :
       \E terminated \in [1..Len(rewards) -> BOOLEAN] :
       \E truncated \in [1..Len(rewards) -> BOOLEAN] :
        LET d == Eager([e \in 1..Len(r) |-> terminated[e] \/ truncated[e]])
            cr0 == IF cumulative_rewards = <<>> THEN ZerosLike(r) ELSE cumulative_rewards
            ct0 == IF cumulative_timesteps = <<>> THEN ZerosLike(r) ELSE cumulative_timesteps
            cr == AddVec(cr0, r)
            ct == AddScalar(ct0, 1)
            finished_episodes == NonZero(d, tensor_dim)
        IN /\ rewards' = r
           /\ dones' = d
           /\ before' = [cumulative_rewards |-> cr0, cumulative_timesteps |-> ct0,
                         track_rewards |-> track_rewards,
                         track_timesteps |-> track_timesteps]
           /\ IF Len(finished_episodes) > 0
              THEN /\ track_rewards' = DequeExtend(track_rewards, Tracked(cr, finished_episodes))
                   /\ track_timesteps' = DequeExtend(track_timesteps, Tracked(ct, finished_episodes))
                   /\ cumulative_rewards' = ResetFinished(cr, finished_episodes)
                   /\ cumulative_timesteps' = ResetFinished(ct, finished_episodes)
              ELSE /\ cumulative_rewards' = cr
                   /\ cumulative_timesteps' = ct
                   /\ UNCHANGED <<track_rewards, track_timesteps>>
    /\ transitions' = transitions + 1
    /\ apc' = "stored"
    /\ UNCHANGED tensor_dim
    /\ UNCHANGED <<lqtVars, tpVars, biVars, simVars, td3Vars, trainerVars>>

NextAgent == store_transition

SpecAgent == InitAgent /\ [][NextAgent]_vars

(***************************************************************************)
(* C23                                                                      *)
(***************************************************************************)
\* the values the finished environments had reached, in the order of the environments
RECURSIVE FinishedValues(_, _, _)
FinishedValues(c, d, n) ==
    IF n = 0 THEN << >>
    ELSE IF d[n] THEN Append(FinishedValues(c, d, n - 1), c[n]) ELSE FinishedValues(c, d, n - 1)

\* C23: after store_transition, the counters of every environment whose episode
\* finished in the transition are 0 and one entry per finished environment was
\* appended to track_rewards and to track_timesteps; the timestep counter of every
\* other environment is one more than before the call and its cumulative reward is
\* the previous value plus the step's reward.
C23_CountersPerEnvironment ==
    apc = "stored" =>
        LET n == Len(rewards)
            reached_r == AddVec(before.cumulative_rewards, rewards)
            reached_t == AddScalar(before.cumulative_timesteps, 1)
        IN /\ \A e \in 1..n :
                IF dones[e]
                THEN cumulative_rewards[e] = 0 /\ cumulative_timesteps[e] = 0
                ELSE /\ cumulative_timesteps[e] = reached_t[e]
                     /\ cumulative_rewards[e] = reached_r[e]
           /\ track_rewards =
                  DequeExtend(before.track_rewards, FinishedValues(reached_r, dones, n))
           /\ track_timesteps =
                  DequeExtend(before.track_timesteps, FinishedValues(reached_t, dones, n))

(***************************************************************************)
(* sim.py: run_traj, run_traj_multi_joints,                                 *)
(* run_traj_multi_joints_with_interference                                  *)
(***************************************************************************)
MaxJoints == 2      \* largest number of attracted joints
MaxTrajLen == 3     \* longest trajectory
MaxUpdates == 4     \* attractor updates of one run

IntfModes == {"actor_dof_efforts", "body_forces", "body_force_at_pos"}

\* the joints update_robot is called for, in order, until traj[i][index] raises
RECURSIVE Commanded(_, _, _)
Commanded(lens, idx, i) ==
    IF i > Len(lens) \/ idx >= lens[i] THEN << >>
    ELSE <<idx>> \o Commanded(lens, idx, i + 1)

\* traj[index, 0] of update_robot raises IndexError for some joint
UpdateRaises(lens, idx) == \E i \in 1..Len(lens) : idx >= lens[i]

\* index += 1; if index >= n: index = 0
Advance(idx, n) == IF idx + 1 >= n THEN 0 ELSE idx + 1

\* lines 347-355: the test of intf_index and the branches of intf_mode
InterferenceApplied(idx, where, mode) ==
    idx \in where /\ mode \in {"actor_dof_efforts", "body_forces"}

\* the arguments the assertions of lines 240, 306-308 and 73 accept
InitSim ==
    /\ spc = "loop"
    /\ sim_fn \in {"run_traj", "run_traj_multi_joints",
                   "run_traj_multi_joints_with_interference"}
    /\ IF sim_fn = "run_traj"
       THEN traj_len \in [1..1 -> 1..MaxTrajLen]
       ELSE traj_len \in UNION { [1..j -> 1..MaxTrajLen] : j \in 1..MaxJoints }
    /\ IF sim_fn = "run_traj_multi_joints_with_interference"
       THEN intf_index \in SUBSET (0..(MaxTrajLen - 1)) /\ intf_mode \in IntfModes
       ELSE intf_index = {} /\ intf_mode = "none"
    /\ index = 0
    /\ commanded = <<>>
    /\ interfered = FALSE
    /\ updates = 0
    /\ LqtIdle /\ TpIdle /\ BiIdle /\ AgentIdle /\ Td3Idle /\ TrainerIdle

\* run_traj, lines 203-209: one attractor update
run_traj_update ==
    /\ spc = "loop"
    /\ sim_fn = "run_traj"
    /\ updates < MaxUpdates
    /\ updates' = updates + 1
    /\ commanded' = Commanded(traj_len, index, 1)
    /\ IF UpdateRaises(traj_len, index)
       THEN spc' = "IndexError" /\ UNCHANGED index
       ELSE spc' = spc /\ index' = Advance(index, traj_len[1])
    /\ UNCHANGED <<sim_fn, traj_len, intf_index, intf_mode, interfered>>
    /\ UNCHANGED <<lqtVars, tpVars, biVars, agentVars, td3Vars, trainerVars>>

\* run_traj_multi_joints, lines 257-265: the wrap reads len(traj[i]) with the i
\* the loop over the joints has left, the last joint
run_traj_multi_joints_update ==
    /\ spc = "loop"
    /\ sim_fn = "run_traj_multi_joints"
    /\ updates < MaxUpdates
    /\ updates' = updates + 1
    /\ commanded' = Commanded(traj_len, index, 1)
    /\ IF UpdateRaises(traj_len, index)
       THEN spc' = "IndexError" /\ UNCHANGED index
       ELSE spc' = spc /\ index' = Advance(index, traj_len[Len(traj_len)])
    /\ UNCHANGED <<sim_fn, traj_len, intf_index, intf_mode, interfered>>
    /\ UNCHANGED <<lqtVars, tpVars, biVars, agentVars, td3Vars, trainerVars>>

\* run_traj_multi_joints_with_interference, lines 336-355
run_traj_multi_joints_with_interference_update ==
    /\ spc = "loop"
    /\ sim_fn = "run_traj_multi_joints_with_interference"
    /\ updates < MaxUpdates
    /\ updates' = updates + 1
    /\ commanded' = Commanded(traj_len, index, 1)
    /\ IF UpdateRaises(traj_len, index)
       THEN spc' = "IndexError" /\ UNCHANGED <<index, interfered>>
       ELSE /\ spc' = spc
            /\ index' = Advance(index, traj_len[1])
            /\ interfered' = InterferenceApplied(Advance(index, traj_len[1]),
                                                 intf_index, intf_mode)
    /\ UNCHANGED <<sim_fn, traj_len, intf_index, intf_mode>>
    /\ UNCHANGED <<lqtVars, tpVars, biVars, agentVars, td3Vars, trainerVars>>

\* gym.query_viewer_has_closed(viewer): the loop ends
viewer_closed ==
    /\ spc = "loop"
    /\ spc' = "closed"
    /\ UNCHANGED <<sim_fn, traj_len, intf_index, intf_mode, index, commanded, interfered,
                   updates>>
    /\ UNCHANGED <<lqtVars, tpVars, biVars, agentVars, td3Vars, trainerVars>>

NextSim ==
    \/ run_traj_update
    \/ run_traj_multi_joints_update
    \/ run_traj_multi_joints_with_interference_update
    \/ viewer_closed

SpecSim == InitSim /\ [][NextSim]_vars

\* all trajectories have the same number of points
SameLengths == \A i \in 1..Len(traj_len) : traj_len[i] = traj_len[1]

(***************************************************************************)
(* C24                                                                      *)
(***************************************************************************)
\* C24: an update of run_traj_multi_joints_with_interference applies the
\* interference exactly when the index of the trajectory point it commands to
\* the attractors is listed in intf_index.
C24_InterferenceAtListedPoints ==
    (/\ sim_fn = "run_traj_multi_joints_with_interference"
     /\ updates > 0
     /\ spc # "IndexError"
     /\ SameLengths) =>
        (interfered <=> commanded[1] \in intf_index)

(***************************************************************************)
(* C25                                                                      *)
(***************************************************************************)
\* C25: in the three functions, update_robot never reads a row outside a
\* trajectory, and the n-th update commands the point (n - 1) mod N of every
\* trajectory of N points.
C25_IndexValidAndCyclic ==
    /\ spc # "IndexError"
    /\ updates > 0 =>
          /\ Len(commanded) = Len(traj_len)
          /\ \A i \in 1..Len(commanded) : commanded[i] = (updates - 1) % traj_len[i]

(***************************************************************************)
(* tpgmm.py: bi                                                             *)
(***************************************************************************)
MaxBiCalls == 2     \* bi calls compared with each other

\* get_related_matrix, lines 36-46, as one function of the demonstrations
GetRelatedMatrix(x) ==
    LET dx == Eager([i \in 1..Len(x) |-> DemoDx(x[i])])
        xdx == Eager([i \in 1..Len(x) |-> HStackXdx(x[i], dx[i])])
        Axdx == Eager([i \in 1..Len(x) |-> KronEye(Len(x[1][1]), TileA(x[i]))])
        bxdx == Eager([i \in 1..Len(x) |-> PadZeros(TileB(x[i]))])
        f == Eager([i \in 1..Len(x) |-> EinsumDemo(xdx[i], Axdx[i], bxdx[i])])
    IN [xdx |-> xdx, A_xdx |-> Axdx, b_xdx |-> bxdx, xdx_f |-> f,
        xdx_augm |-> Eager([i \in 1..Len(f) |-> Reshape(f[i], AugmWidth(xdx))])]

RelatedMatrixRaises(x) == \E i \in 1..Len(x) : DemoDxRaises(x[i])

\* poe, lines 69-84, as one function of its arguments
Poe(mdl, Axdx, bxdx, demo_idx) ==
    LET tr == PoeTransform(Axdx, bxdx, demo_idx, 0)
    IN PoeProduct(PoeMod1(mdl, tr), PoeMod2(mdl, tr))

\* generate, lines 87-95, as one function of its arguments: the tracker that
\* lqr.seq_xi solves
Generate(mdl, fused, xdx, augm, demo_idx) ==
    LET obs == DecodedObservation(augm, demo_idx)
        fw == ViterbiTables(mdl, obs)
        path == ViterbiPath(fw.delta, fw.psi, Len(obs), mdl.nb_states)
    IN GenerateLqr(mdl, fused, xdx, path, demo_idx)

\* A plausible slip: the left arm is decoded on the right arm's observations.
GenerateLeft_RightObservations(l, r, demo_idx) ==
    Generate(l.model, l.prod, l.xdx, r.xdx_augm, demo_idx)

\* line 133: gen_l = generate(model_l, prod_l, demos_left_x, demos_left_xdx, ...)
GenerateLeft(l, r, demo_idx) ==
    Generate(l.model, l.prod, l.xdx, l.xdx_augm, demo_idx)

\* line 134: gen_r = generate(model_r, prod_r, demos_right_x, demos_right_xdx, ...)
GenerateRight(l, r, demo_idx) ==
    Generate(r.model, r.prod, r.xdx, r.xdx_augm, demo_idx)

\* Demonstrations of one arm: two demonstrations of dimension D, the first one
\* of MaxT points, resting at one point and moving to the other at its last step.
BiDemoLists(D) ==
    { << Demo(s, D), Demo(Companion(s), D) >> :
        s \in { p \in SeqsOfLen(Vals, MaxT) :
                  /\ p[1] # p[Len(p)]
                  /\ \A j \in 1..(Len(p) - 1) : p[j] = p[1] } }

\* model.em is deterministic: on data it has been given before it returns the
\* model it returned then, on new data one of the fitted models
FitChoices(fs, d) ==
    IF \E k \in 1..Len(fs) : fs[k].data = d
    THEN { fs[k].model : k \in { j \in 1..Len(fs) : fs[j].data = d } }
    ELSE { FittedModel(Len(d[1][1]), 1), FittedModel(Len(d[1][1]), NbFits) }

Remember(fs, d, mdl) ==
    IF \E k \in 1..Len(fs) : fs[k].data = d THEN fs ELSE Append(fs, [data |-> d, model |-> mdl])

InitBi ==
    /\ bpc = "get_related_matrix"
    /\ \E D \in 1..MaxD :
        /\ demos_left_x \in BiDemoLists(D)
        /\ demos_right_x \in BiDemoLists(D)
    /\ bi_demo_idx \in 0..1
    /\ left = <<>> /\ right = <<>> /\ fits = <<>> /\ returned = <<>>
    /\ LqtIdle /\ TpIdle /\ AgentIdle /\ SimIdle /\ Td3Idle /\ TrainerIdle

\* lines 122-125
bi_get_related_matrix ==
    /\ bpc = "get_related_matrix"
    /\ IF RelatedMatrixRaises(demos_left_x) \/ RelatedMatrixRaises(demos_right_x)
       THEN bpc' = "IndexError" /\ UNCHANGED <<left, right>>
       ELSE /\ left' = GetRelatedMatrix(demos_left_x)
            /\ right' = GetRelatedMatrix(demos_right_x)
            /\ bpc' = "HMM_learning"
    /\ UNCHANGED <<demos_left_x, demos_right_x, bi_demo_idx, fits, returned>>
    /\ UNCHANGED <<lqtVars, tpVars, agentVars, simVars, td3Vars, trainerVars>>

\* lines 127-128
bi_HMM_learning ==
    /\ bpc = "HMM_learning"
    /\ \E ml \in FitChoices(fits, left.xdx_augm) :
       \E mr \in FitChoices(Remember(fits, left.xdx_augm, ml), right.xdx_augm) :
        /\ left' = [xdx |-> left.xdx, A_xdx |-> left.A_xdx, b_xdx |-> left.b_xdx,
                    xdx_f |-> left.xdx_f, xdx_augm |-> left.xdx_augm, model |-> ml]
        /\ right' = [xdx |-> right.xdx, A_xdx |-> right.A_xdx, b_xdx |-> right.b_xdx,
                     xdx_f |-> right.xdx_f, xdx_augm |-> right.xdx_augm, model |-> mr]
        /\ fits' = Remember(Remember(fits, left.xdx_augm, ml), right.xdx_augm, mr)
    /\ bpc' = "poe"
    /\ UNCHANGED <<demos_left_x, demos_right_x, bi_demo_idx, returned>>
    /\ UNCHANGED <<lqtVars, tpVars, agentVars, simVars, td3Vars, trainerVars>>

\* lines 130-131
bi_poe ==
    /\ bpc = "poe"
    /\ left' = [xdx |-> left.xdx, A_xdx |-> left.A_xdx, b_xdx |-> left.b_xdx,
                xdx_f |-> left.xdx_f, xdx_augm |-> left.xdx_augm, model |-> left.model,
                prod |-> Poe(left.model, left.A_xdx, left.b_xdx, bi_demo_idx)]
    /\ right' = [xdx |-> right.xdx, A_xdx |-> right.A_xdx, b_xdx |-> right.b_xdx,
                 xdx_f |-> right.xdx_f, xdx_augm |-> right.xdx_augm, model |-> right.model,
                 prod |-> Poe(right.model, right.A_xdx, right.b_xdx, bi_demo_idx)]
    /\ bpc' = "generate"
    /\ UNCHANGED <<demos_left_x, demos_right_x, bi_demo_idx, fits, returned>>
    /\ UNCHANGED <<lqtVars, tpVars, agentVars, simVars, td3Vars, trainerVars>>

\* lines 133-141: gen_l and gen_r are generated and returned
bi_generate ==
    /\ bpc = "generate"
    /\ returned' = Append(returned,
                      [demos_left_x |-> demos_left_x, demos_right_x |-> demos_right_x,
                       show_demo_idx |-> bi_demo_idx,
                       gen_l |-> GenerateLeft(left, right, bi_demo_idx),
                       gen_r |-> GenerateRight(left, right, bi_demo_idx)])
    /\ bpc' = "returned"
    /\ UNCHANGED <<demos_left_x, demos_right_x, bi_demo_idx, left, right, fits>>
    /\ UNCHANGED <<lqtVars, tpVars, agentVars, simVars, td3Vars, trainerVars>>

\* bi is called again, with other demonstrations for one of the arms
bi_again ==
    /\ bpc = "returned"
    /\ Len(returned) < MaxBiCalls
    /\ \E other \in BiDemoLists(Len(demos_left_x[1][1])) :
        \/ other # demos_right_x /\ demos_right_x' = other /\ UNCHANGED demos_left_x
        \/ other # demos_left_x /\ demos_left_x' = other /\ UNCHANGED demos_right_x
    /\ left' = <<>> /\ right' = <<>>
    /\ bpc' = "get_related_matrix"
    /\ UNCHANGED <<bi_demo_idx, fits, returned>>
    /\ UNCHANGED <<lqtVars, tpVars, agentVars, simVars, td3Vars, trainerVars>>

NextBi ==
    \/ bi_get_related_matrix
    \/ bi_HMM_learning
    \/ bi_poe
    \/ bi_generate
    \/ bi_again

SpecBi == InitBi /\ [][NextBi]_vars

(***************************************************************************)
(* C30                                                                      *)
(***************************************************************************)
\* C30: two bi calls with the same left demonstrations and the same
\* show_demo_idx return the same left trajectory whatever the right
\* demonstrations are, and two calls with the same right demonstrations and
\* show_demo_idx return the same right trajectory.
C30_ArmsAreIndependent ==
    \A i, j \in 1..Len(returned) :
        (returned[i].show_demo_idx = returned[j].show_demo_idx) =>
            /\ (returned[i].demos_left_x = returned[j].demos_left_x) =>
                   returned[i].gen_l = returned[j].gen_l
            /\ (returned[i].demos_right_x = returned[j].demos_right_x) =>
                   returned[i].gen_r = returned[j].gen_r

C30_Witness ==
    /\ Len(returned) = 2
    /\ returned[1].demos_left_x = returned[2].demos_left_x
    /\ returned[1].demos_right_x # returned[2].demos_right_x
    /\ returned[1].demos_left_x # returned[1].demos_right_x
    /\ returned[1].gen_r # returned[2].gen_r
    /\ returned[1].gen_l = returned[2].gen_l
    /\ returned[1].gen_l.horizon >= 2

====
